---------------------------- MODULE Spec2Model ----------------------------
(***************************************************************************)
(* SignalDesk: the deterministic scoring / governance engine               *)
(* (lib/signaldesk.ts) and the App component that gates final export on    *)
(* reviewer governance (src/App.tsx).                                      *)
(*                                                                         *)
(* JavaScript strings the program computes on (intake text, keywords,      *)
(* scope keys, decision ids, reviewer notes) are sequences of UTF-16 code  *)
(* units, written here as tuples of numbers with the text in a comment.    *)
(* Fixed messages and enumeration values (source types, claim types,       *)
(* statuses, horizons, notices) are TLA+ strings.                          *)
(***************************************************************************)
EXTENDS Integers, Sequences, FiniteSets, TLC

VARIABLES
    \* ---- App component state (useState hooks, src/App.tsx:44-50) ----
    intakeText,      \* textarea content
    sessionName,     \* session name input
    sessions,        \* SavedSession list held by the component
    activeSession,   \* id selected in the "reload" select
    notice,          \* status strip message
    storageError,    \* storage error banner, or Null
    reviewers,       \* Record<decisionId, ReviewerDecision> held by the component
    sources,         \* useMemo: parseSources(intakeText)
    claims,          \* useMemo: buildClaims(sources)
    baseDecisions,   \* useMemo: buildDecisions(claims)
    intakeIssues,    \* useMemo: validateIntake(intakeText)
    \* ---- browser environment of the App ----
    localItems,      \* localStorage
    sessionItems,    \* sessionStorage
    downloads,       \* the files downloadFile has saved
    clock,           \* value of new Date() in ticks
    \* ---- a call of an exported function of lib/signaldesk.ts ----
    fn,              \* the function called, "App" when the App runs
    args,            \* its arguments
    ret              \* its result: NoResult, then ResultOf(the value returned)

vars == << intakeText, sessionName, sessions, activeSession, notice, storageError,
           reviewers, sources, claims, baseDecisions, intakeIssues, localItems,
           sessionItems, downloads, clock, fn, args, ret >>

\* the values memoized from the intake
memoVars == << sources, claims, baseDecisions, intakeIssues >>

appVars == << intakeText, sessionName, sessions, activeSession, notice, storageError,
              reviewers, memoVars, localItems, sessionItems, downloads, clock >>

-----------------------------------------------------------------------------
(* Values of the JavaScript runtime *)

\* null and undefined: functions on {0}, which equal no string, array or map
Null == [i \in {0} |-> "null"]
Undefined == [i \in {0} |-> "undefined"]

\* ret before the call returns, and once it has returned v
NoResult == [returned |-> FALSE, value |-> << >>]
ResultOf(v) == [returned |-> TRUE, value |-> v]

\* the call of name has returned
Called(name) == fn = name /\ ret.returned

Min(a, b) == IF a < b THEN a ELSE b
Max(a, b) == IF a > b THEN a ELSE b

\* String.prototype.toLowerCase on one code unit (ASCII range)
LowerUnit(c) == IF c >= 65 /\ c =< 90 THEN c + 32 ELSE c

ToLowerCase(s) == [i \in 1..Len(s) |-> LowerUnit(s[i])]

\* WhiteSpace and LineTerminator code units, the ones String.prototype.trim strips
IsWhiteSpace(c) ==
    c \in {9, 10, 11, 12, 13, 32, 160, 5760, 8232, 8233, 8239, 8287, 12288, 65279}
    \/ (c >= 8192 /\ c =< 8202)

\* String.prototype.trim: s from its first to its last code unit that is not
\* white space
Trim(s) ==
    LET kept == { i \in 1..Len(s) : ~IsWhiteSpace(s[i]) }
    IN  IF kept = {} THEN << >>
        ELSE SubSeq(s, CHOOSE i \in kept : \A j \in kept : i =< j,
                       CHOOSE i \in kept : \A j \in kept : i >= j)

\* String.prototype.includes
Includes(s, t) ==
    \E i \in 0..(Len(s) - Len(t)) : \A j \in 1..Len(t) : s[i + j] = t[j]

\* Number.prototype.toString(10) of a non-negative integer
RECURSIVE DecimalDigits(_)
DecimalDigits(n) ==
    IF n < 10 THEN << 48 + n >> ELSE Append(DecimalDigits(n \div 10), 48 + (n % 10))

-----------------------------------------------------------------------------
(* intakeScopeKey.  A 32-bit value is a pair << hi, lo >> of 16-bit halves,  *)
(* so that the arithmetic stays inside 32-bit signed integers.             *)

Word == 2 ^ 16

RECURSIVE BitXor(_, _, _)
BitXor(a, b, bits) ==
    IF bits = 0 THEN 0
    ELSE ((a + b) % 2) + 2 * BitXor(a \div 2, b \div 2, bits - 1)

\* (hash * 33) ^ unit, truncated to 32 bits by the ^ operator
HashStep(hash, unit) ==
    LET lo33 == hash[2] * 33
        hi33 == hash[1] * 33 + (lo33 \div Word)
    IN  << hi33 % Word, BitXor(lo33 % Word, unit, 16) >>

RECURSIVE HashRange(_, _, _, _)
\* the loop over s[i..j], folded by halves; the running hash of the left
\* half is evaluated before the right half is folded
HashRange(hash, s, i, j) ==
    IF i > j THEN hash
    ELSE IF i = j THEN HashStep(hash, s[i])
    ELSE LET left == HashRange(hash, s, i, (i + j) \div 2)
         IN  IF left[1] >= 0 THEN HashRange(left, s, (i + j) \div 2 + 1, j) ELSE left

\* for (let i = 0; i < normalized.length; i += 1) hash = (hash * 33) ^ charCodeAt(i)
HashFrom(hash, s) == HashRange(hash, s, 1, Len(s))

\* 5381 as << hi, lo >>
HashSeed == << 0, 5381 >>

HexUnit(d) == IF d < 10 THEN 48 + d ELSE 87 + d

RECURSIVE HexDigits(_, _)
\* (hash >>> 0).toString(16): base-16 digits, no leading zeros
HexDigits(hi, lo) ==
    IF hi = 0 /\ lo < 16 THEN << HexUnit(lo) >>
    ELSE Append(HexDigits(hi \div 16, ((hi % 16) * Word + lo) \div 16), HexUnit(lo % 16))

StrSession == << 115, 101, 115, 115, 105, 111, 110, 58 >>                    \* "session:"
StrIntake == << 105, 110, 116, 97, 107, 101, 58 >>                            \* "intake:"
StrIntakeEmpty == << 105, 110, 116, 97, 107, 101, 58, 101, 109, 112, 116, 121 >>  \* "intake:empty"

\* a string argument is truthy when it is given and not ''
Truthy(v) == v # Undefined /\ v # Null /\ v # << >>

\* a variant that hashes the text as typed, without normalizing it
intakeScopeKeyRawAlt(intakeText_, sessionId) ==
    LET hash == HashFrom(HashSeed, intakeText_)
    IN  IF Truthy(sessionId) THEN StrSession \o sessionId
        ELSE IF Trim(intakeText_) = << >> THEN StrIntakeEmpty
        ELSE StrIntake \o HexDigits(hash[1], hash[2])

\* intakeScopeKey(intakeText, sessionId?)
intakeScopeKey(intakeText_, sessionId) ==
    LET normalized == ToLowerCase(Trim(intakeText_))
        hash == HashFrom(HashSeed, normalized)
    IN  IF Truthy(sessionId) THEN StrSession \o sessionId
        ELSE IF normalized = << >> THEN StrIntakeEmpty
        ELSE StrIntake \o HexDigits(hash[1], hash[2])

-----------------------------------------------------------------------------
(* JavaScript objects used as maps: a sequence of [key, value] entries in    *)
(* insertion order (the order Object.values and JSON.stringify follow).    *)

EmptyObject == << >>

ObjKeys(o) == { o[i].key : i \in 1..Len(o) }

ObjHas(o, k) == \E i \in 1..Len(o) : o[i].key = k

\* o[k], Undefined when k is not an own property
ObjGet(o, k) ==
    IF ObjHas(o, k) THEN o[CHOOSE i \in 1..Len(o) : o[i].key = k].value ELSE Undefined

\* { ...o, [k]: v }: an existing key keeps its position, a new key goes last
ObjSet(o, k, v) ==
    IF ObjHas(o, k)
    THEN [i \in 1..Len(o) |-> IF o[i].key = k THEN [key |-> k, value |-> v] ELSE o[i]]
    ELSE Append(o, [key |-> k, value |-> v])

\* Object.values(o)
ObjValues(o) == [i \in 1..Len(o) |-> o[i].value]

-----------------------------------------------------------------------------
(* lib/signaldesk.ts: source parsing *)

SIGNALS ==
    [ opportunity |->     \* launch, growth, demand, adoption, win, expand, retention, upsell, pipeline
        << <<108, 97, 117, 110, 99, 104>>,
           <<103, 114, 111, 119, 116, 104>>,
           <<100, 101, 109, 97, 110, 100>>,
           <<97, 100, 111, 112, 116, 105, 111, 110>>,
           <<119, 105, 110>>,
           <<101, 120, 112, 97, 110, 100>>,
           <<114, 101, 116, 101, 110, 116, 105, 111, 110>>,
           <<117, 112, 115, 101, 108, 108>>,
           <<112, 105, 112, 101, 108, 105, 110, 101>> >>,
      risk |->     \* risk, decline, churn, cost, delay, blocked, incident, burn, friction, drop
        << <<114, 105, 115, 107>>,
           <<100, 101, 99, 108, 105, 110, 101>>,
           <<99, 104, 117, 114, 110>>,
           <<99, 111, 115, 116>>,
           <<100, 101, 108, 97, 121>>,
           <<98, 108, 111, 99, 107, 101, 100>>,
           <<105, 110, 99, 105, 100, 101, 110, 116>>,
           <<98, 117, 114, 110>>,
           <<102, 114, 105, 99, 116, 105, 111, 110>>,
           <<100, 114, 111, 112>> >>,
      assumption |->     \* assume, likely, should, expect, hypothesis, probably
        << <<97, 115, 115, 117, 109, 101>>,
           <<108, 105, 107, 101, 108, 121>>,
           <<115, 104, 111, 117, 108, 100>>,
           <<101, 120, 112, 101, 99, 116>>,
           <<104, 121, 112, 111, 116, 104, 101, 115, 105, 115>>,
           <<112, 114, 111, 98, 97, 98, 108, 121>> >>,
      unknown |->     \* unknown, tbd, unclear, missing, need data, ?
        << <<117, 110, 107, 110, 111, 119, 110>>,
           <<116, 98, 100>>,
           <<117, 110, 99, 108, 101, 97, 114>>,
           <<109, 105, 115, 115, 105, 110, 103>>,
           <<110, 101, 101, 100, 32, 100, 97, 116, 97>>,
           <<63>> >>,
      evidence |->     \* data, confirmed, published, survey, metric, evidence, reported
        << <<100, 97, 116, 97>>,
           <<99, 111, 110, 102, 105, 114, 109, 101, 100>>,
           <<112, 117, 98, 108, 105, 115, 104, 101, 100>>,
           <<115, 117, 114, 118, 101, 121>>,
           <<109, 101, 116, 114, 105, 99>>,
           <<101, 118, 105, 100, 101, 110, 99, 101>>,
           <<114, 101, 112, 111, 114, 116, 101, 100>> >>,
      weakSignal |->     \* maybe, possibly, guess, perhaps, rumor
        << <<109, 97, 121, 98, 101>>,
           <<112, 111, 115, 115, 105, 98, 108, 121>>,
           <<103, 117, 101, 115, 115>>,
           <<112, 101, 114, 104, 97, 112, 115>>,
           <<114, 117, 109, 111, 114>> >>,
      recency |->     \* today, this week, current, latest, 2026, q1, q2, q3, q4
        << <<116, 111, 100, 97, 121>>,
           <<116, 104, 105, 115, 32, 119, 101, 101, 107>>,
           <<99, 117, 114, 114, 101, 110, 116>>,
           <<108, 97, 116, 101, 115, 116>>,
           <<50, 48, 50, 54>>,
           <<113, 49>>,
           <<113, 50>>,
           <<113, 51>>,
           <<113, 52>> >>,
      contradictions |->     \* however, but, except, contradict, conflict
        << <<104, 111, 119, 101, 118, 101, 114>>,
           <<98, 117, 116>>,
           <<101, 120, 99, 101, 112, 116>>,
           <<99, 111, 110, 116, 114, 97, 100, 105, 99, 116>>,
           <<99, 111, 110, 102, 108, 105, 99, 116>> >> ]

StrHttp == <<104, 116, 116, 112, 58, 47, 47>>   \* "http://"
StrHttps == <<104, 116, 116, 112, 115, 58, 47, 47>>   \* "https://"
StrTranscript == <<116, 114, 97, 110, 115, 99, 114, 105, 112, 116>>   \* "transcript"
StrSpeaker == <<115, 112, 101, 97, 107, 101, 114, 58>>   \* "speaker:"
StrPdf == <<46, 112, 100, 102>>   \* ".pdf"
StrDoc == <<100, 111, 99>>   \* "doc"
StrReport == <<114, 101, 112, 111, 114, 116>>   \* "report"
StrMemo == <<109, 101, 109, 111>>   \* "memo"
StrQuestion == <<63>>   \* "?"
Str2025 == <<50, 48, 50, 53>>   \* "2025"
Str2026 == <<50, 48, 50, 54>>   \* "2026"
StrSourceId == <<115, 45>>   \* "s-"
StrDecisionId == <<100, 45>>   \* "d-"
StrDash == <<45>>   \* "-"

StartsWith(s, t) == Len(s) >= Len(t) /\ SubSeq(s, 1, Len(t)) = t

\* the number of pieces of s.split(' ')
SplitSpaceLength(s) == Cardinality({ i \in 1..Len(s) : s[i] = 32 }) + 1

\* new URL(raw) for a raw that starts with http:// or https://: the parse fails
\* when the authority is empty or holds a code point a host may not hold
safeUrl(raw) ==
    LET rest == IF StartsWith(raw, StrHttps) THEN SubSeq(raw, Len(StrHttps) + 1, Len(raw))
                ELSE SubSeq(raw, Len(StrHttp) + 1, Len(raw))
        stops == { i \in 1..Len(rest) : rest[i] \in {47, 63, 35, 92} }   \* / ? # \
        hostEnd == IF stops = {} THEN Len(rest)
                   ELSE (CHOOSE i \in stops : \A j \in stops : i =< j) - 1
        host == SubSeq(rest, 1, hostEnd)
    IN  /\ host # << >>
        /\ \A i \in 1..Len(host) : host[i] \notin {32, 60, 62, 91, 93, 94, 124, 37}

classify(raw) ==
    LET lower == ToLowerCase(raw)
    IN  IF StartsWith(raw, StrHttp) \/ StartsWith(raw, StrHttps) THEN "url"
        ELSE IF Includes(lower, StrTranscript) \/ Includes(lower, StrSpeaker)
                \/ SplitSpaceLength(lower) > 22 THEN "transcript"
        ELSE IF Includes(lower, StrPdf) \/ Includes(lower, StrDoc)
                \/ Includes(lower, StrReport) \/ Includes(lower, StrMemo) THEN "document"
        ELSE "note"

\* input.split(/\r?\n/): the pieces between the line breaks, a break being a
\* line feed together with the carriage return before it, if there is one
SplitLines(s) ==
    LET feeds == { i \in 1..Len(s) : s[i] = 10 }
        feed(k) == CHOOSE i \in feeds : Cardinality({ j \in feeds : j < i }) = k - 1
        first(k) == IF k = 1 THEN 1 ELSE feed(k - 1) + 1
        last(k) == IF k = Cardinality(feeds) + 1 THEN Len(s)
                   ELSE IF feed(k) - 1 >= first(k) /\ s[feed(k) - 1] = 13 THEN feed(k) - 2
                   ELSE feed(k) - 1
    IN  [k \in 1..(Cardinality(feeds) + 1) |-> SubSeq(s, first(k), last(k))]

\* a variant that numbers the sources by the position of their line
parseSourcesLineNumberAlt(input) ==
    LET lines == SplitLines(input)
        trimmed == [i \in 1..Len(lines) |-> Trim(lines[i])]
        positions == SelectSeq([i \in 1..Len(lines) |-> i], LAMBDA i : trimmed[i] # << >>)
    IN  [index \in 1..Len(positions) |->
            LET raw == trimmed[positions[index]]
                type == classify(raw)
            IN  [id |-> StrSourceId \o DecimalDigits(positions[index]),
                 raw |-> raw,
                 type |-> type,
                 valid |-> IF type = "url" THEN safeUrl(raw) ELSE TRUE]]

parseSources(input) ==
    LET lines == SplitLines(input)
        trimmed == [i \in 1..Len(lines) |-> Trim(lines[i])]
        kept == SelectSeq(trimmed, LAMBDA line : line # << >>)
    IN  [index \in 1..Len(kept) |->
            LET raw == kept[index]
                type == classify(raw)
            IN  [id |-> StrSourceId \o DecimalDigits(index),
                 raw |-> raw,
                 type |-> type,
                 valid |-> IF type = "url" THEN safeUrl(raw) ELSE TRUE]]

-----------------------------------------------------------------------------
(* lib/signaldesk.ts: the scoring engine and the claim extractor *)

countMatches(raw, terms) ==
    LET lower == ToLowerCase(raw)
    IN  Cardinality({ i \in 1..Len(terms) : Includes(lower, terms[i]) })

\* Math.max(lo, Math.min(hi, x))
Clamp(lo, hi, x) == Max(lo, Min(hi, x))

sourceReliabilityBase(sourceType) ==
    CASE sourceType = "url" -> 20
      [] sourceType = "document" -> 24
      [] sourceType = "transcript" -> 17
      [] sourceType = "note" -> 13

\* a variant without the clamp of the total
scoreBreakdownNoClampAlt(raw, sourceType) ==
    LET evidenceHits == countMatches(raw, SIGNALS.evidence)
        weakHits == countMatches(raw, SIGNALS.weakSignal)
        recencyHits == countMatches(raw, SIGNALS.recency)
        contradictionHits == countMatches(raw, SIGNALS.contradictions)
                                + (IF Includes(raw, StrQuestion) THEN 1 ELSE 0)
        signalQuality == Clamp(8, 45, 18 + evidenceHits * 8 - weakHits * 6
                                         + (IF Len(raw) > 90 THEN 4 ELSE 0))
        sourceReliability == sourceReliabilityBase(sourceType)
        recency == Clamp(0, 18, recencyHits * 6
                    + (IF Includes(raw, Str2025) \/ Includes(raw, Str2026) THEN 4 ELSE 0))
        contradictionPenalty == Clamp(0, 24, contradictionHits * 6)
    IN  [signalQuality |-> signalQuality,
         sourceReliability |-> sourceReliability,
         recency |-> recency,
         contradictionPenalty |-> contradictionPenalty,
         total |-> signalQuality + sourceReliability + recency - contradictionPenalty,
         rationale |-> << >>]

scoreBreakdown(raw, sourceType) ==
    LET evidenceHits == countMatches(raw, SIGNALS.evidence)
        weakHits == countMatches(raw, SIGNALS.weakSignal)
        recencyHits == countMatches(raw, SIGNALS.recency)
        contradictionHits == countMatches(raw, SIGNALS.contradictions)
                                + (IF Includes(raw, StrQuestion) THEN 1 ELSE 0)
        signalQuality == Clamp(8, 45, 18 + evidenceHits * 8 - weakHits * 6
                                         + (IF Len(raw) > 90 THEN 4 ELSE 0))
        sourceReliability == sourceReliabilityBase(sourceType)
        recency == Clamp(0, 18, recencyHits * 6
                    + (IF Includes(raw, Str2025) \/ Includes(raw, Str2026) THEN 4 ELSE 0))
        contradictionPenalty == Clamp(0, 24, contradictionHits * 6)
        total == Clamp(8, 95, signalQuality + sourceReliability + recency - contradictionPenalty)
    IN  [signalQuality |-> signalQuality,
         sourceReliability |-> sourceReliability,
         recency |-> recency,
         contradictionPenalty |-> contradictionPenalty,
         total |-> total,
         rationale |->
            << << "signal quality ", signalQuality, " from evidence(", evidenceHits,
                  ")/weak(", weakHits, ") markers" >>,
               << "source reliability ", sourceReliability, " for ", sourceType >>,
               << "recency ", recency, " from recency markers(", recencyHits, ")" >>,
               << "contradiction penalty -", contradictionPenalty >> >>]

scoreConfidence(raw, sourceType) == scoreBreakdown(raw, sourceType).total

\* a variant whose high bucket starts above 72
bucketConfidenceAbove72Alt(score) ==
    IF score > 72 THEN "high" ELSE IF score >= 46 THEN "medium" ELSE "low"

bucketConfidence(score) ==
    IF score >= 72 THEN "high" ELSE IF score >= 46 THEN "medium" ELSE "low"

\* the closure push(type, phrase) of extractClaimsForSource
PushClaim(source, type, phrase) ==
    LET breakdown == scoreBreakdown(source.raw, source.type)
    IN  [type |-> type,
         text |-> << phrase, ": ", SubSeq(source.raw, 1, Min(120, Len(source.raw))) >>,
         confidence |-> bucketConfidence(breakdown.total),
         confidenceScore |-> breakdown.total,
         scoreBreakdown |-> breakdown,
         sourceId |-> source.id]

\* a variant whose fallback claim is of type unknown for every source type
extractClaimsForSourceUnknownAlt(source) ==
    LET text == source.raw
        claims_ ==
            (IF countMatches(text, SIGNALS.opportunity) > 0 \/ source.type = "url"
                THEN << PushClaim(source, "opportunity", "Opportunity signal") >> ELSE << >>)
            \o (IF countMatches(text, SIGNALS.risk) > 0
                THEN << PushClaim(source, "risk", "Risk signal") >> ELSE << >>)
            \o (IF countMatches(text, SIGNALS.assumption) > 0
                THEN << PushClaim(source, "assumption", "Assumption to validate") >> ELSE << >>)
            \o (IF countMatches(text, SIGNALS.unknown) > 0
                THEN << PushClaim(source, "unknown", "Unknown requiring evidence") >> ELSE << >>)
    IN  IF claims_ = << >>
        THEN << PushClaim(source, "unknown", "Context captured but under-specified") >>
        ELSE claims_

\* a variant that gives a url an opportunity claim only for a keyword
extractClaimsForSourceKeywordAlt(source) ==
    LET text == source.raw
        claims_ ==
            (IF countMatches(text, SIGNALS.opportunity) > 0
                THEN << PushClaim(source, "opportunity", "Opportunity signal") >> ELSE << >>)
            \o (IF countMatches(text, SIGNALS.risk) > 0
                THEN << PushClaim(source, "risk", "Risk signal") >> ELSE << >>)
            \o (IF countMatches(text, SIGNALS.assumption) > 0
                THEN << PushClaim(source, "assumption", "Assumption to validate") >> ELSE << >>)
            \o (IF countMatches(text, SIGNALS.unknown) > 0
                THEN << PushClaim(source, "unknown", "Unknown requiring evidence") >> ELSE << >>)
        fallbackType == IF source.type = "note" THEN "assumption" ELSE "unknown"
    IN  IF claims_ = << >>
        THEN << PushClaim(source, fallbackType, "Context captured but under-specified") >>
        ELSE claims_

extractClaimsForSource(source) ==
    LET text == source.raw
        oppHits == countMatches(text, SIGNALS.opportunity)
        riskHits == countMatches(text, SIGNALS.risk)
        assumptionHits == countMatches(text, SIGNALS.assumption)
        unknownHits == countMatches(text, SIGNALS.unknown)
        claims_ ==
            (IF oppHits > 0 \/ source.type = "url"
                THEN << PushClaim(source, "opportunity", "Opportunity signal") >> ELSE << >>)
            \o (IF riskHits > 0
                THEN << PushClaim(source, "risk", "Risk signal") >> ELSE << >>)
            \o (IF assumptionHits > 0
                THEN << PushClaim(source, "assumption", "Assumption to validate") >> ELSE << >>)
            \o (IF unknownHits > 0
                THEN << PushClaim(source, "unknown", "Unknown requiring evidence") >> ELSE << >>)
        fallbackType == IF source.type = "note" THEN "assumption" ELSE "unknown"
    IN  IF claims_ = << >>
        THEN << PushClaim(source, fallbackType, "Context captured but under-specified") >>
        ELSE claims_

RECURSIVE buildClaims(_)
\* sources.flatMap(extractClaimsForSource)
buildClaims(sources_) ==
    IF sources_ = << >> THEN << >>
    ELSE extractClaimsForSource(Head(sources_)) \o buildClaims(Tail(sources_))

-----------------------------------------------------------------------------
(* lib/signaldesk.ts: the decision ranker and auto-governance.              *)
(* Fractions are kept exact: an average is the pair [sum, count], and a      *)
(* decision's score is held in fiftieths (score * 50), an integer.  The      *)
(* scores of two decisions of one run are either equal in both arithmetics *)
(* or at least 1/50 apart, so the order of the sort is the code's.         *)

RECURSIVE SumConfidenceScore(_)
SumConfidenceScore(claims_) ==
    IF claims_ = << >> THEN 0
    ELSE Head(claims_).confidenceScore + SumConfidenceScore(Tail(claims_))

\* a variant that takes the highest confidence when there is no claim
averageConfidenceScoreFullAlt(claims_) ==
    IF claims_ = << >> THEN [sum |-> 95, count |-> 1]
    ELSE [sum |-> SumConfidenceScore(claims_), count |-> Len(claims_)]

\* the mean as [sum, count]; 0 for no claims
averageConfidenceScore(claims_) ==
    IF claims_ = << >> THEN [sum |-> 0, count |-> 1]
    ELSE [sum |-> SumConfidenceScore(claims_), count |-> Len(claims_)]

\* Math.round(n / d) for n >= 0, d > 0: halves round up
RoundDiv(n, d) == (2 * n + d) \div (2 * d)

RECURSIVE SourceIdsInOrder(_, _)
\* the keys of bySource, in insertion order
SourceIdsInOrder(claims_, seen) ==
    IF claims_ = << >> THEN seen
    ELSE SourceIdsInOrder(Tail(claims_),
            IF \E i \in 1..Len(seen) : seen[i] = Head(claims_).sourceId
            THEN seen ELSE Append(seen, Head(claims_).sourceId))

TypesOfSource(claims_, sourceId) ==
    { claims_[i].type : i \in { j \in 1..Len(claims_) : claims_[j].sourceId = sourceId } }

\* a variant that looks for the two claim types anywhere in the intake
computeConflictSourceIdsAnyAlt(claims_) ==
    LET types == { claims_[i].type : i \in 1..Len(claims_) }
    IN  IF "opportunity" \in types /\ "risk" \in types
        THEN SourceIdsInOrder(claims_, << >>) ELSE << >>

computeConflictSourceIds(claims_) ==
    SelectSeq(SourceIdsInOrder(claims_, << >>),
              LAMBDA sourceId : /\ "opportunity" \in TypesOfSource(claims_, sourceId)
                                /\ "risk" \in TypesOfSource(claims_, sourceId))

HorizonText(horizon) ==
    CASE horizon = "24h" -> << 50, 52, 104 >>
      [] horizon = "7d" -> << 55, 100 >>
      [] horizon = "30d" -> << 51, 48, 100 >>

\* `d-${horizon}-${index + 1}`
decisionId(horizon, index) ==
    StrDecisionId \o HorizonText(horizon) \o StrDash \o DecimalDigits(index + 1)

\* a variant without the clamp of the total
scoreDecisionBreakdownNoClampAlt(decision, claims_) ==
    LET avg == averageConfidenceScore(claims_)
        contradictionPenalty == Len(computeConflictSourceIds(claims_)) * 8
        signalQuality == Clamp(10, 40, RoundDiv(decision.impact * 32, 10))
        sourceReliability == Clamp(8, 30, RoundDiv(avg.sum, 3 * avg.count))
        recency == IF decision.horizon = "24h" THEN 16
                   ELSE IF decision.horizon = "7d" THEN 10 ELSE 6
    IN  [signalQuality |-> signalQuality,
         sourceReliability |-> sourceReliability,
         recency |-> recency,
         contradictionPenalty |-> contradictionPenalty,
         total |-> signalQuality + sourceReliability + recency - contradictionPenalty,
         rationale |-> << >>]

scoreDecisionBreakdown(decision, claims_) ==
    LET avg == averageConfidenceScore(claims_)
        contradictionPenalty == Len(computeConflictSourceIds(claims_)) * 8
        signalQuality == Clamp(10, 40, RoundDiv(decision.impact * 32, 10))
        sourceReliability == Clamp(8, 30, RoundDiv(avg.sum, 3 * avg.count))
        recency == IF decision.horizon = "24h" THEN 16
                   ELSE IF decision.horizon = "7d" THEN 10 ELSE 6
        total == Clamp(8, 95, signalQuality + sourceReliability + recency - contradictionPenalty)
    IN  [signalQuality |-> signalQuality,
         sourceReliability |-> sourceReliability,
         recency |-> recency,
         contradictionPenalty |-> contradictionPenalty,
         total |-> total,
         rationale |->
            << << "signal quality ", signalQuality, " from impact ", decision.impact >>,
               \* avg.toFixed(1), in tenths
               << "source reliability ", sourceReliability, " from avg claim confidence ",
                  RoundDiv(10 * avg.sum, avg.count) >>,
               << "recency ", recency, " from horizon ", decision.horizon >>,
               << "contradiction penalty -", contradictionPenalty >> >>]

ReasonLowConfidence == << "low-confidence score requires reviewer approval" >>
ReasonConflict(conflicts) == << "conflicting claims detected in sources: ", conflicts >>
ReasonPasses == << "passes deterministic scoring and conflict checks" >>

\* a variant whose low-confidence rule is score <= 46
autoGovernanceStatusOffByOneAlt(score, conflicts) ==
    LET reasons == (IF score =< 46 THEN << ReasonLowConfidence >> ELSE << >>)
                   \o (IF Len(conflicts) > 0 THEN << ReasonConflict(conflicts) >> ELSE << >>)
    IN  [status |-> IF score =< 46 \/ Len(conflicts) > 0 THEN "needs-review" ELSE "accepted",
         reasons |-> IF reasons = << >> THEN << ReasonPasses >> ELSE reasons]

\* a variant without the reason of a decision that passes
autoGovernanceStatusNoPassAlt(score, conflicts) ==
    [status |-> IF score < 46 \/ Len(conflicts) > 0 THEN "needs-review" ELSE "accepted",
     reasons |-> (IF score < 46 THEN << ReasonLowConfidence >> ELSE << >>)
                 \o (IF Len(conflicts) > 0 THEN << ReasonConflict(conflicts) >> ELSE << >>)]

autoGovernanceStatus(score, conflicts) ==
    LET reasons == (IF score < 46 THEN << ReasonLowConfidence >> ELSE << >>)
                   \o (IF Len(conflicts) > 0 THEN << ReasonConflict(conflicts) >> ELSE << >>)
    IN  [status |-> IF score < 46 \/ Len(conflicts) > 0 THEN "needs-review" ELSE "accepted",
         reasons |-> IF reasons = << >> THEN << ReasonPasses >> ELSE reasons]

CountType(claims_, type) == Cardinality({ i \in 1..Len(claims_) : claims_[i].type = type })

\* a variant whose impacts are not capped at 10
DecisionRowsNoCapAlt(claims_) ==
    LET opportunities == CountType(claims_, "opportunity")
        risks == CountType(claims_, "risk")
        assumptions == CountType(claims_, "assumption")
        unknowns == CountType(claims_, "unknown")
    IN  << [title |-> "Run one high-leverage experiment against the strongest upside signal",
            rationale |-> << "Anchors on ", opportunities, " opportunity signals." >>,
            impact |-> 5 + opportunities,
            effort |-> 4,
            urgency |-> 8,
            horizon |-> "24h"],
           [title |-> "Contain downside with owner-assigned mitigation plan",
            rationale |-> << "", risks,
                " risk signals detected; convert each into mitigation with owner + SLA." >>,
            impact |-> 4 + risks,
            effort |-> 5,
            urgency |-> 7,
            horizon |-> "7d"],
           [title |-> "Resolve assumptions/unknowns with targeted evidence sprint",
            rationale |-> << "", assumptions + unknowns,
                " uncertain claims must be validated before larger bets." >>,
            impact |-> 4 + assumptions + unknowns,
            effort |-> 6,
            urgency |-> 6,
            horizon |-> "30d"] >>

\* the three decision templates of buildDecisions
DecisionRows(claims_) ==
    LET opportunities == CountType(claims_, "opportunity")
        risks == CountType(claims_, "risk")
        assumptions == CountType(claims_, "assumption")
        unknowns == CountType(claims_, "unknown")
    IN  << [title |-> "Run one high-leverage experiment against the strongest upside signal",
            rationale |-> << "Anchors on ", opportunities, " opportunity signals." >>,
            impact |-> Min(10, 5 + opportunities),
            effort |-> 4,
            urgency |-> 8,
            horizon |-> "24h"],
           [title |-> "Contain downside with owner-assigned mitigation plan",
            rationale |-> << "", risks,
                " risk signals detected; convert each into mitigation with owner + SLA." >>,
            impact |-> Min(10, 4 + risks),
            effort |-> 5,
            urgency |-> 7,
            horizon |-> "7d"],
           [title |-> "Resolve assumptions/unknowns with targeted evidence sprint",
            rationale |-> << "", assumptions + unknowns,
                " uncertain claims must be validated before larger bets." >>,
            impact |-> Min(10, 4 + assumptions + unknowns),
            effort |-> 6,
            urgency |-> 6,
            horizon |-> "30d"] >>

\* the callback of rows.map in buildDecisions; index counts from 0
GovernedDecision(decision, index, claims_, conflicts) ==
    LET breakdown == scoreDecisionBreakdown(decision, claims_)
        \* impact * 1.8 + urgency * 1.2 - effort + total / 50 - contradictionPenalty / 10,
        \* in fiftieths
        weightedScore == decision.impact * 90 + decision.urgency * 60 - decision.effort * 50
                            + breakdown.total - breakdown.contradictionPenalty * 5
        governance == autoGovernanceStatus(breakdown.total, conflicts)
    IN  [title |-> decision.title,
         rationale |-> decision.rationale,
         impact |-> decision.impact,
         effort |-> decision.effort,
         urgency |-> decision.urgency,
         horizon |-> decision.horizon,
         id |-> decisionId(decision.horizon, index),
         score |-> weightedScore,
         scoreBreakdown |-> breakdown,
         status |-> governance.status,
         governanceReasons |-> governance.reasons,
         conflictSourceIds |-> conflicts]

RECURSIVE InsertByScore(_, _)
\* d goes after every element whose score is not lower
InsertByScore(sorted, d) ==
    IF sorted = << >> THEN << d >>
    ELSE IF Head(sorted).score >= d.score THEN << Head(sorted) >> \o InsertByScore(Tail(sorted), d)
    ELSE << d >> \o sorted

\* a variant that leaves the decisions in the order of the rows
SortByScoreDescRowsAlt(list) == list

RECURSIVE SortByScoreDesc(_)
\* Array.prototype.sort((a, b) => b.score - a.score): descending and stable
SortByScoreDesc(list) ==
    IF list = << >> THEN << >>
    ELSE InsertByScore(SortByScoreDesc(SubSeq(list, 1, Len(list) - 1)), list[Len(list)])

\* a variant that ranks only the decisions that have a claim behind them
buildDecisionsDropAlt(claims_) ==
    LET rows == DecisionRows(claims_)
        conflicts == computeConflictSourceIds(claims_)
        mapped == [i \in 1..Len(rows) |-> GovernedDecision(rows[i], i - 1, claims_, conflicts)]
    IN  SortByScoreDesc(SelectSeq(mapped, LAMBDA d : d.impact > 4))

buildDecisions(claims_) ==
    LET rows == DecisionRows(claims_)
        conflicts == computeConflictSourceIds(claims_)
        mapped == [i \in 1..Len(rows) |-> GovernedDecision(rows[i], i - 1, claims_, conflicts)]
    IN  SortByScoreDesc(mapped)

-----------------------------------------------------------------------------
(* lib/signaldesk.ts: the reviewer merge *)

ReasonReviewerStatus(status) == << "reviewer set status to ", status >>
ReasonReviewerNote(notes) == << "reviewer note: ", notes >>

\* a variant in which the reviewer's reasons replace the auto-governance
\* reasons
MergedDecisionReplaceAlt(decision, reviewerMap) ==
    LET review == ObjGet(reviewerMap, decision.id)
    IN  IF ~ObjHas(reviewerMap, decision.id) THEN decision
        ELSE [decision EXCEPT
                !.status = review.status,
                !.governanceReasons =
                    << ReasonReviewerStatus(review.status) >>
                    \o (IF Trim(review.notes) # << >>
                        THEN << ReasonReviewerNote(Trim(review.notes)) >> ELSE << >>)]

MergedDecision(decision, reviewerMap) ==
    LET review == ObjGet(reviewerMap, decision.id)
    IN  IF ~ObjHas(reviewerMap, decision.id) THEN decision
        ELSE [decision EXCEPT
                !.status = review.status,
                !.governanceReasons =
                    decision.governanceReasons
                    \o << ReasonReviewerStatus(review.status) >>
                    \o (IF Trim(review.notes) # << >>
                        THEN << ReasonReviewerNote(Trim(review.notes)) >> ELSE << >>)]

\* a variant that reads the time: an entry older than the time of the call
\* is passed over
mergeReviewerDecisionsExpireAlt(decisions, reviewerMap) ==
    [i \in 1..Len(decisions) |->
        IF ObjHas(reviewerMap, decisions[i].id)
            /\ ObjGet(reviewerMap, decisions[i].id).updatedAt < clock
        THEN decisions[i]
        ELSE MergedDecision(decisions[i], reviewerMap)]

mergeReviewerDecisions(decisions, reviewerMap) ==
    [i \in 1..Len(decisions) |-> MergedDecision(decisions[i], reviewerMap)]

\* a variant that counts every decision not accepted as pending
hasPendingReviewNotAcceptedAlt(decisions) ==
    \E i \in 1..Len(decisions) : decisions[i].status # "accepted"

hasPendingReview(decisions) ==
    \E i \in 1..Len(decisions) : decisions[i].status = "needs-review"

\* a variant that pushes the reviewer's reasons onto the decision's own
\* governanceReasons array (no copy)
mergeReviewerDecisionsInputsPushAlt(decisions, reviewerMap) ==
    [ decisions |->
        [i \in 1..Len(decisions) |->
            [decisions[i] EXCEPT
                !.governanceReasons =
                    MergedDecision(decisions[i], reviewerMap).governanceReasons]],
      reviewerMap |-> reviewerMap ]

\* the arguments as a call of mergeReviewerDecisions leaves them: map returns
\* a new array, the reasons are pushed onto a copy ([...governanceReasons])
\* and the merged decision is a new object ({ ...decision }), so nothing the
\* arguments refer to is written
mergeReviewerDecisionsInputs(decisions, reviewerMap) ==
    [ decisions |-> decisions, reviewerMap |-> reviewerMap ]

-----------------------------------------------------------------------------
(* lib/signaldesk.ts: the storage wrappers.                                 *)
(* A Storage is [items, setItemThrows]: its items (key -> string) and        *)
(* whether setItem fails (quota exceeded, storage unavailable).  A stored   *)
(* string is << "json", v >>, the text JSON.stringify(v) writes and          *)
(* JSON.parse reads back as v (v an object or an array), or << "text", t >>, *)
(* a string t that is no JSON text.  A call that can throw returns          *)
(* [threw, value, items]: items is the storage's content after the call.   *)

SESSION_KEY == <<115, 105, 103, 110, 97, 108, 100, 101, 115, 107, 58, 115, 101, 115, 115, 105, 111, 110, 115, 58, 118, 49>>   \* "signaldesk:sessions:v1"
REVIEWER_KEY == <<115, 105, 103, 110, 97, 108, 100, 101, 115, 107, 58, 114, 101, 118, 105, 101, 119, 101, 114, 115, 58, 118, 49>>   \* "signaldesk:reviewers:v1"
StrUndefined == <<117, 110, 100, 101, 102, 105, 110, 101, 100>>   \* "undefined"

Storage(items, setItemThrows) == [items |-> items, setItemThrows |-> setItemThrows]

Returned(value, items) == [threw |-> FALSE, value |-> value, items |-> items]
Threw(items) == [threw |-> TRUE, value |-> Undefined, items |-> items]

\* storage.getItem(key): the string, or Null
GetItem(storage, key) ==
    IF ObjHas(storage.items, key) THEN ObjGet(storage.items, key) ELSE Null

JSONStringify(value) == << "json", value >>

\* JSON.parse("42"): a parsed value that is neither an object nor null
JSONNumber == [i \in {0} |-> "42"]

\* the TypeError a property read of null throws, in place of a result
TypeErrorThrown == [i \in {0} |-> "TypeError"]

\* { ...value }: the own enumerable properties; none for null and a number
Spread(value) == IF value = Null \/ value = JSONNumber THEN EmptyObject ELSE value

\* JSON.parse(string) returns string[2]; it throws a SyntaxError otherwise
IsJSONText(string) == string[1] = "json"

\* ToPropertyKey of a computed key
PropertyKey(key) == IF key = Undefined THEN StrUndefined ELSE key

loadSessions(storage) ==
    LET raw == GetItem(storage, SESSION_KEY)
    IN  IF raw = Null THEN << >> ELSE IF ~IsJSONText(raw) THEN << >> ELSE raw[2]

\* a variant that keeps every session
saveSessionToStorageNoCapAlt(session, existing, storage) ==
    LET merged == << session >> \o existing
    IN  IF storage.setItemThrows THEN Threw(storage.items)
        ELSE Returned(merged, ObjSet(storage.items, SESSION_KEY, JSONStringify(merged)))

\* a variant that catches the failure of setItem and returns the list
saveSessionToStorageCatchAlt(session, existing, storage) ==
    LET all == << session >> \o existing
        merged == SubSeq(all, 1, Min(20, Len(all)))
    IN  IF storage.setItemThrows THEN Returned(merged, storage.items)
        ELSE Returned(merged, ObjSet(storage.items, SESSION_KEY, JSONStringify(merged)))

saveSessionToStorage(session, existing, storage) ==
    LET all == << session >> \o existing
        merged == SubSeq(all, 1, Min(20, Len(all)))
    IN  IF storage.setItemThrows THEN Threw(storage.items)
        ELSE Returned(merged, ObjSet(storage.items, SESSION_KEY, JSONStringify(merged)))

loadReviewerStore(storage) ==
    LET raw == GetItem(storage, REVIEWER_KEY)
    IN  IF raw = Null THEN EmptyObject ELSE IF ~IsJSONText(raw) THEN EmptyObject ELSE raw[2]

\* store[scopeKey] ?? {}
loadReviewerDecisions(scopeKey, storage) ==
    LET store == loadReviewerStore(storage)
    IN  IF store = Null THEN TypeErrorThrown
        ELSE IF store = JSONNumber THEN EmptyObject
        ELSE IF ~ObjHas(store, PropertyKey(scopeKey)) THEN EmptyObject
        ELSE ObjGet(store, PropertyKey(scopeKey))

\* a variant that keeps the entry a decision already has
saveReviewerDecisionFirstWinsAlt(entry, current, scopeKey, storage) ==
    LET nextScope == IF ObjHas(current, entry.decisionId) THEN current
                     ELSE ObjSet(current, entry.decisionId, entry)
        store == loadReviewerStore(storage)
        nextStore == ObjSet(Spread(store), PropertyKey(scopeKey), nextScope)
    IN  IF storage.setItemThrows THEN Threw(storage.items)
        ELSE Returned(nextScope, ObjSet(storage.items, REVIEWER_KEY, JSONStringify(nextStore)))

\* a variant that writes one map for all scopes
saveReviewerDecisionFlatAlt(entry, current, scopeKey, storage) ==
    LET nextScope == ObjSet(current, entry.decisionId, entry)
        store == loadReviewerStore(storage)
        nextStore == [i \in 1..Len(ObjSet(Spread(store), PropertyKey(scopeKey), nextScope)) |->
                        [key |-> ObjSet(Spread(store), PropertyKey(scopeKey), nextScope)[i].key,
                         value |-> nextScope]]
    IN  IF storage.setItemThrows THEN Threw(storage.items)
        ELSE Returned(nextScope, ObjSet(storage.items, REVIEWER_KEY, JSONStringify(nextStore)))

\* a variant that adds the caller's map to what the store holds for the
\* scope
saveReviewerDecisionMergeAlt(entry, current, scopeKey, storage) ==
    LET nextScope == ObjSet(current, entry.decisionId, entry)
        store == loadReviewerStore(storage)
        stored == IF ObjHas(Spread(store), PropertyKey(scopeKey))
                  THEN ObjGet(store, PropertyKey(scopeKey)) ELSE EmptyObject
        merged == stored \o SelectSeq(nextScope, LAMBDA p : ~ObjHas(stored, p.key))
        nextStore == ObjSet(Spread(store), PropertyKey(scopeKey),
                            [i \in 1..Len(merged) |->
                                IF ObjHas(nextScope, merged[i].key)
                                THEN [key |-> merged[i].key,
                                      value |-> ObjGet(nextScope, merged[i].key)]
                                ELSE merged[i]])
    IN  IF storage.setItemThrows THEN Threw(storage.items)
        ELSE Returned(nextScope, ObjSet(storage.items, REVIEWER_KEY, JSONStringify(nextStore)))

saveReviewerDecision(entry, current, scopeKey, storage) ==
    LET nextScope == ObjSet(current, entry.decisionId, entry)
        store == loadReviewerStore(storage)
        nextStore == ObjSet(Spread(store), PropertyKey(scopeKey), nextScope)
    IN  IF storage.setItemThrows THEN Threw(storage.items)
        ELSE Returned(nextScope, ObjSet(storage.items, REVIEWER_KEY, JSONStringify(nextStore)))

-----------------------------------------------------------------------------
(* lib/signaldesk.ts: the roadmap *)

\* the items returned for the horizons without a decision
RoadmapFallback ==
    << [horizon |-> "24h", action |-> "Define decision owner + first measurable move",
        owner |-> "Operator", successMetric |-> "Owner + KPI documented"],
       [horizon |-> "7d", action |-> "Run execution sprint and mitigate top risk",
        owner |-> "Cross-functional", successMetric |-> "Risk register reduced by 30%"],
       [horizon |-> "30d", action |-> "Institutionalize learnings into repeatable workflow",
        owner |-> "Leadership", successMetric |-> "Strategy cycle time drops week-over-week"] >>

RoadmapHorizons == << "24h", "7d", "30d" >>

\* the callback of the map over the horizons; map.get(horizon) is the last
\* decision of the horizon, as map.set replaces
RoadmapItem(decisions, horizon, index) ==
    LET found == SelectSeq(decisions, LAMBDA decision : decision.horizon = horizon)
        decision == found[Len(found)]
    IN  IF found = << >> THEN RoadmapFallback[index]
        ELSE [horizon |-> horizon,
              action |-> decision.title,
              owner |-> IF horizon = "24h" THEN "Operator + Coder"
                        ELSE IF horizon = "7d" THEN "Ops Lead" ELSE "Strategy Lead",
              successMetric |->
                IF horizon = "24h" THEN "First experiment launched with baseline metric"
                ELSE IF horizon = "7d"
                THEN "Mitigation and opportunity progress reviewed with evidence"
                ELSE "Validated playbook + next-quarter plan approved"]

\* a variant that leaves out the horizons without a decision
buildRoadmapPresentAlt(decisions) ==
    LET present == SelectSeq(RoadmapHorizons,
                             LAMBDA horizon : \E i \in 1..Len(decisions) :
                                                decisions[i].horizon = horizon)
    IN  [k \in 1..Len(present) |->
            RoadmapItem(decisions, present[k],
                        CHOOSE index \in 1..3 : RoadmapHorizons[index] = present[k])]

buildRoadmap(decisions) ==
    [index \in 1..Len(RoadmapHorizons) |->
        RoadmapItem(decisions, RoadmapHorizons[index], index)]

-----------------------------------------------------------------------------
(* src/App.tsx: the App component.  Its state hooks and the values useMemo  *)
(* keeps for the intake are the variables; what a render derives from them  *)
(* besides is a state function; a handler is an action.  The intake is one  *)
(* of the texts of IntakeCatalog.  A time is a tick count: ISO strings of   *)
(* times compare as the times do.                                           *)

\* the length validateIntake allows
IntakeLimit == 5000

\* a variant that does not limit the length
validateIntakeNoLimitAlt(intakeText_) ==
    IF Trim(intakeText_) = << >> THEN << "Intake cannot be empty." >> ELSE << >>

validateIntake(intakeText_) ==
    (IF Trim(intakeText_) = << >> THEN << "Intake cannot be empty." >> ELSE << >>)
    \o (IF Len(intakeText_) > IntakeLimit
        THEN << "Intake exceeds 5,000 characters. Split into smaller sessions." >>
        ELSE << >>)

NoticeReady == << "Ready." >>

AppConstructed ==
    /\ intakeText = << >>
    /\ sessionName = << >>
    /\ sessions = << >>
    /\ activeSession = << >>
    /\ notice = NoticeReady
    /\ storageError = Null
    /\ reviewers = EmptyObject
    /\ sources = parseSources(intakeText)
    /\ claims = buildClaims(sources)
    /\ baseDecisions = buildDecisions(claims)
    /\ intakeIssues = validateIntake(intakeText)
    /\ localItems = EmptyObject
    /\ sessionItems = EmptyObject
    /\ downloads = {}
    /\ clock = 0

MaxClock == 1

\* "report: published data confirmed today churn": auto-governance accepts the
\* 24h and 7d decisions and holds back the 30d decision (total 43)
IntakeHeldBack == <<114, 101, 112, 111, 114, 116, 58, 32, 112, 117, 98, 108, 105, 115, 104, 101, 100, 32, 100, 97, 116, 97, 32, 99, 111, 110, 102, 105, 114, 109, 101, 100, 32, 116, 111, 100, 97, 121, 32, 99, 104, 117, 114, 110>>

\* "report: published data confirmed today churn likely need data":
\* auto-governance accepts every decision
IntakeCleared == <<114, 101, 112, 111, 114, 116, 58, 32, 112, 117, 98, 108, 105, 115, 104, 101, 100, 32, 100, 97, 116, 97, 32, 99, 111, 110, 102, 105, 114, 109, 101, 100, 32, 116, 111, 100, 97, 121, 32, 99, 104, 117, 114, 110, 32, 108, 105, 107, 101, 108, 121, 32, 110, 101, 101, 100, 32, 100, 97, 116, 97>>

\* text followed by as many spaces as make it length characters long
PadTo(text, length) == text \o [i \in 1..(length - Len(text)) |-> 32]

\* '', the held-back text, the same text with one more character ('!'), and
\* the cleared text padded to the limit and to one character more
IntakeCatalog ==
    { << >>,
      IntakeHeldBack,
      Append(IntakeHeldBack, 33),
      PadTo(IntakeCleared, IntakeLimit),
      PadTo(IntakeCleared, IntakeLimit + 1) }

RECURSIVE InsertByUpdatedAt(_, _)
\* entry goes after every element that is not later
InsertByUpdatedAt(sorted, entry) ==
    IF sorted = << >> THEN << entry >>
    ELSE IF Head(sorted).updatedAt =< entry.updatedAt
         THEN << Head(sorted) >> \o InsertByUpdatedAt(Tail(sorted), entry)
    ELSE << entry >> \o sorted

RECURSIVE SortByUpdatedAt(_)
\* sort((a, b) => a.updatedAt.localeCompare(b.updatedAt)): ascending and stable
SortByUpdatedAt(list) ==
    IF list = << >> THEN << >>
    ELSE InsertByUpdatedAt(SortByUpdatedAt(SubSeq(list, 1, Len(list) - 1)), list[Len(list)])

\* a variant that returns the entries in the order of the map's keys
reviewerTrailKeyOrderAlt(reviewerMap) == ObjValues(reviewerMap)

reviewerTrail(reviewerMap) == SortByUpdatedAt(ObjValues(reviewerMap))

decisions == mergeReviewerDecisions(baseDecisions, reviewers)
\* useMemo: the sources, claims, baseDecisions and intakeIssues of each
\* text, and the render
\* after the intake became text
Memo ==
    [ text \in IntakeCatalog |->
        LET parsed == parseSources(text)
            built == buildClaims(parsed)
        IN  [ sources |-> parsed,
              claims |-> built,
              baseDecisions |-> buildDecisions(built),
              intakeIssues |-> validateIntake(text) ] ]

Render(text) ==
    \E memo \in { Memo[text] } :
        /\ sources' = memo.sources
        /\ claims' = memo.claims
        /\ baseDecisions' = memo.baseDecisions
        /\ intakeIssues' = memo.intakeIssues

pendingReview == hasPendingReview(decisions)
trail == reviewerTrail(reviewers)
hasInput == Len(sources) > 0

blockedExportReason ==
    IF pendingReview
    THEN "Final export is blocked: one or more decisions still need review."
    ELSE IF Len(intakeIssues) > 0
    THEN "Resolve intake validation issues before exporting."
    ELSE ""

\* new Date(): a time later than the last one read
Now == { t \in {clock + 1} : t =< MaxClock }

\* downloadFile(filename, content, type): the browser saves the file, in
\* place of an earlier download of the same name; its content is the pack
\* rendered from the state of the call
downloadFile(filename, type) ==
    downloads' = downloads \cup { [filename |-> filename, type |-> type] }

\* the body shared by exportMarkdown and exportJson
ExportPack(filename, type, exported) ==
    /\ IF ~hasInput \/ blockedExportReason # ""
       THEN /\ notice' = << IF blockedExportReason # "" THEN blockedExportReason
                            ELSE "Add at least one source before exporting." >>
            /\ UNCHANGED downloads
       ELSE /\ downloadFile(filename, type)
            /\ notice' = << exported >>
    /\ UNCHANGED << intakeText, memoVars, sessionName, sessions, activeSession, storageError,
                    reviewers, localItems, sessionItems, clock, fn, args, ret >>

\* called by the Export Markdown button and by Ctrl+Enter
exportMarkdown ==
    ExportPack("signaldesk-pack.md", "text/markdown", "Exported final markdown pack.")

\* called by the Export JSON button; the handler is taken as callable in
\* every state, also while the button is disabled
exportJson ==
    ExportPack("signaldesk-pack.json", "application/json", "Exported final JSON execution pack.")

\* crypto.randomUUID(): an id no session has had, "u" and the time of the call
randomUUID(now) == << 117 >> \o DecimalDigits(now)

saveSession ==
    IF Trim(sessionName) = << >>
    THEN /\ notice' = << "Add a session name before saving." >>
         /\ UNCHANGED << intakeText, memoVars, sessionName, sessions, activeSession, storageError,
                         reviewers, localItems, sessionItems, downloads, clock, fn, args, ret >>
    ELSE IF Len(intakeIssues) > 0
    THEN /\ notice' = << "Fix intake validation issues before saving." >>
         /\ UNCHANGED << intakeText, memoVars, sessionName, sessions, activeSession, storageError,
                         reviewers, localItems, sessionItems, downloads, clock, fn, args, ret >>
    ELSE /\ \E now \in Now, setItemThrows \in BOOLEAN :
                LET next == [id |-> randomUUID(now), name |-> Trim(sessionName),
                             createdAt |-> now, intakeText |-> intakeText]
                    saved == saveSessionToStorage(next, sessions,
                                                  Storage(localItems, setItemThrows))
                IN  /\ clock' = now
                    /\ localItems' = saved.items
                    /\ IF saved.threw
                       THEN /\ storageError' = << "Unable to save session in browser storage. Check storage permissions or quota." >>
                            /\ notice' = << "Session save failed." >>
                            /\ UNCHANGED << sessions, sessionName >>
                       ELSE /\ sessions' = saved.value
                            /\ sessionName' = << >>
                            /\ storageError' = Null
                            /\ notice' = << "Session \"", next.name, "\" saved." >>
         /\ UNCHANGED << intakeText, memoVars, activeSession, reviewers, sessionItems,
                         downloads, fn, args, ret >>

restoreSession ==
    LET found == SelectSeq(sessions, LAMBDA session : session.id = activeSession)
    IN  /\ IF activeSession = << >>
           THEN /\ notice' = << "Select a saved session to load." >>
                /\ UNCHANGED << intakeText, memoVars >>
           ELSE IF found = << >>
           THEN /\ notice' = << "Selected session is unavailable." >>
                /\ UNCHANGED << intakeText, memoVars >>
           ELSE /\ intakeText' = found[1].intakeText
                /\ Render(found[1].intakeText)
                /\ notice' = << "Loaded session \"", found[1].name, "\"." >>
        /\ UNCHANGED << sessionName, sessions, activeSession, storageError, reviewers,
                        localItems, sessionItems, downloads, clock, fn, args, ret >>

\* the App passes no scope key: saveReviewerDecision(entry, reviewers)
updateReviewer(decisionId_, status, notes) ==
    \E now \in Now, setItemThrows \in BOOLEAN :
        LET entry == [decisionId |-> decisionId_, status |-> status,
                      notes |-> notes, updatedAt |-> now]
            saved == saveReviewerDecision(entry, reviewers, Undefined,
                                          Storage(sessionItems, setItemThrows))
        IN  /\ clock' = now
            /\ sessionItems' = saved.items
            /\ IF saved.threw
               THEN /\ storageError' = << "Unable to persist reviewer actions in session storage." >>
                    /\ notice' = << "Reviewer save failed." >>
                    /\ UNCHANGED reviewers
               ELSE /\ reviewers' = saved.value
                    /\ storageError' = Null
                    /\ notice' = << "Reviewer action saved for ", decisionId_, "." >>
            /\ UNCHANGED << intakeText, memoVars, sessionName, sessions, activeSession,
                            localItems, downloads, fn, args, ret >>

\* onKeyDownCapture, with Ctrl or Meta held; other keys do nothing
handleGlobalKeyDown == \E key \in {"enter", "s"} :
    IF key = "enter" THEN exportMarkdown ELSE saveSession

\* onChange of the intake textarea
ChangeIntake == \E text \in IntakeCatalog \ {intakeText} :
    /\ intakeText' = text
    /\ Render(text)
    /\ notice' = << "Draft updated. Run export when ready." >>
    /\ UNCHANGED << sessionName, sessions, activeSession, storageError, reviewers,
                    localItems, sessionItems, downloads, clock, fn, args, ret >>

\* '' and "s"
SessionNames == { << >>, << 115 >> }

\* onChange of the session-name input
ChangeSessionName == \E name \in SessionNames \ {sessionName} :
    /\ sessionName' = name
    /\ UNCHANGED << intakeText, memoVars, sessions, activeSession, notice, storageError,
                    reviewers, localItems, sessionItems, downloads, clock, fn, args, ret >>

\* onChange of the saved-session select: '' or the id of a saved session
ChangeActiveSession ==
    \E id \in ({ << >> } \cup { sessions[i].id : i \in 1..Len(sessions) }) \ {activeSession} :
        /\ activeSession' = id
        /\ UNCHANGED << intakeText, memoVars, sessionName, sessions, notice, storageError,
                        reviewers, localItems, sessionItems, downloads, clock, fn, args, ret >>

ReviewStatuses == {"accepted", "needs-review", "rejected"}

\* '' and "ok"
ReviewerNotes == { << >>, << 111, 107 >> }

\* onChange of a decision's status select
ChangeReviewStatus == \E i \in 1..Len(decisions), status \in ReviewStatuses :
    LET review == ObjGet(reviewers, decisions[i].id)
    IN  /\ status # (IF ~ObjHas(reviewers, decisions[i].id) THEN decisions[i].status ELSE review.status)
        /\ updateReviewer(decisions[i].id, status,
                          IF ~ObjHas(reviewers, decisions[i].id) THEN << >> ELSE review.notes)

\* onChange of a decision's notes input
ChangeReviewNotes == \E i \in 1..Len(decisions), notes \in ReviewerNotes :
    LET review == ObjGet(reviewers, decisions[i].id)
    IN  /\ notes # (IF ~ObjHas(reviewers, decisions[i].id) THEN << >> ELSE review.notes)
        /\ updateReviewer(decisions[i].id,
                          IF ~ObjHas(reviewers, decisions[i].id) THEN decisions[i].status ELSE review.status,
                          notes)

\* the page is loaded again in the same tab: the hooks are initialized anew
Reload ==
    LET loaded == loadReviewerDecisions(Undefined, Storage(sessionItems, FALSE))
    IN  /\ intakeText' = << >>
        /\ Render(<< >>)
        /\ sessionName' = << >>
        /\ sessions' = loadSessions(Storage(localItems, FALSE))
        /\ activeSession' = << >>
        /\ notice' = NoticeReady
        /\ storageError' = Null
        /\ reviewers' = loaded
        /\ UNCHANGED << localItems, sessionItems, downloads, clock, fn, args, ret >>

\* sessionStorage after a reviewer accepted the three decisions at time 0,
\* earlier in the tab
ReviewedEarlier ==
    LET accepted(horizon, index) ==
            [decisionId |-> decisionId(horizon, index), status |-> "accepted",
             notes |-> << >>, updatedAt |-> 0]
        first == saveReviewerDecision(accepted("24h", 0), EmptyObject, Undefined,
                                      Storage(EmptyObject, FALSE))
        second == saveReviewerDecision(accepted("7d", 1), first.value, Undefined,
                                       Storage(first.items, FALSE))
        third == saveReviewerDecision(accepted("30d", 2), second.value, Undefined,
                                      Storage(second.items, FALSE))
    IN  third.items

\* the App is constructed in a tab whose sessionStorage is empty or holds
\* the reviewer entries of earlier use
Init ==
    /\ intakeText = << >>
    /\ sessionName = << >>
    /\ localItems = EmptyObject
    /\ sessions = loadSessions(Storage(localItems, FALSE))
    /\ activeSession = << >>
    /\ notice = NoticeReady
    /\ storageError = Null
    /\ sessionItems \in { EmptyObject, ReviewedEarlier }
    /\ reviewers = loadReviewerDecisions(Undefined, Storage(sessionItems, FALSE))
    /\ sources = parseSources(intakeText)
    /\ claims = buildClaims(sources)
    /\ baseDecisions = buildDecisions(claims)
    /\ intakeIssues = validateIntake(intakeText)
    /\ downloads = {}
    /\ clock = 0
    /\ fn = "App"
    /\ args = << >>
    /\ ret = NoResult

Next ==
    \/ ChangeIntake
    \/ ChangeSessionName
    \/ ChangeActiveSession
    \/ ChangeReviewStatus
    \/ ChangeReviewNotes
    \/ exportMarkdown
    \/ exportJson
    \/ saveSession
    \/ restoreSession
    \/ handleGlobalKeyDown
    \/ Reload

Spec == Init /\ [][Next]_vars

\* the App with its session panel left alone: intake edits, reviewer
\* actions, exports and reloads
NextReview ==
    \/ ChangeIntake
    \/ ChangeReviewStatus
    \/ ChangeReviewNotes
    \/ exportMarkdown
    \/ exportJson
    \/ Reload

SpecReview == Init /\ [][NextReview]_vars

\* export may go ahead: no decision of the merged set needs review, and the
\* intake is neither blank nor longer than 5000 characters
ExportAllowed ==
    /\ \A i \in 1..Len(decisions) : decisions[i].status # "needs-review"
    /\ \E i \in 1..Len(intakeText) : ~IsWhiteSpace(intakeText[i])
    /\ Len(intakeText) =< 5000

BlockingNotice ==
    IF \E i \in 1..Len(decisions) : decisions[i].status = "needs-review"
    THEN << "Final export is blocked: one or more decisions still need review." >>
    ELSE << "Resolve intake validation issues before exporting." >>

\* C1: exportMarkdown and exportJson save a file only when no decision of the
\* reviewer-merged set needs review and the intake is non-blank and at most
\* 5000 characters long; in every other state they save nothing and set the
\* notice to the blocking reason.  hasPendingReview is true exactly when a
\* decision has the status needs-review.
C1_ExportGate ==
    [][ /\ downloads' # downloads => ExportAllowed
        /\ exportMarkdown
            => IF ExportAllowed
               THEN [filename |-> "signaldesk-pack.md", type |-> "text/markdown"] \in downloads'
               ELSE downloads' = downloads /\ notice' = BlockingNotice
        /\ exportJson
            => IF ExportAllowed
               THEN [filename |-> "signaldesk-pack.json", type |-> "application/json"]
                        \in downloads'
               ELSE downloads' = downloads /\ notice' = BlockingNotice
        /\ hasPendingReview(decisions)
            <=> \E i \in 1..Len(decisions) : decisions[i].status = "needs-review"
      ]_vars

\* a pack was exported once a reviewer had accepted the decision held back,
\* and a later export, of an intake over the limit, was refused
C1_Witness ==
    /\ downloads # {}
    /\ clock > 0
    /\ Len(intakeText) > 5000
    /\ ~pendingReview
    /\ notice = << "Resolve intake validation issues before exporting." >>

\* C14: when the intake is non-blank and at most 5000 characters long and the
\* reviewer actions have left no merged decision with the status
\* needs-review, exportMarkdown and exportJson save their file and report the
\* export instead of refusing.
C14_ExportAfterReview ==
    [][ ExportAllowed
        => /\ exportMarkdown
                => /\ downloads' = downloads
                        \cup { [filename |-> "signaldesk-pack.md", type |-> "text/markdown"] }
                   /\ notice' = << "Exported final markdown pack." >>
           /\ exportJson
                => /\ downloads' = downloads
                        \cup { [filename |-> "signaldesk-pack.json", type |-> "application/json"] }
                   /\ notice' = << "Exported final JSON execution pack." >>
      ]_vars

\* the reviewer has rejected the decision auto-governance held back, and the
\* JSON pack has been exported after that
C14_Witness ==
    /\ hasPendingReview(baseDecisions)
    /\ \E i \in 1..Len(decisions) :
        /\ baseDecisions[i].status = "needs-review"
        /\ decisions[i].status = "rejected"
    /\ ExportAllowed
    /\ [filename |-> "signaldesk-pack.json", type |-> "application/json"] \in downloads
    /\ notice = << "Exported final JSON execution pack." >>

\* the scope key of each text of the catalog, without a session id
ScopeKeyOf == [text \in IntakeCatalog |-> intakeScopeKey(text, Undefined)]

\* the reviewer entries persisted under the scope of the current intake
OwnScopeEntries ==
    loadReviewerDecisions(ScopeKeyOf[intakeText], Storage(sessionItems, FALSE))

\* C2: when the intake is edited while reviewer entries are held, and the
\* scope of the new intake holds no reviewer entries, every decision of the
\* new intake has its auto-governed status, and export stays refused if one
\* of them needs review.
C2_EditedIntakeKeepsAutoStatus ==
    [][ (intakeText' # intakeText /\ reviewers # EmptyObject /\ OwnScopeEntries' = EmptyObject)
        => /\ \A i \in 1..Len(decisions') : decisions'[i].status = baseDecisions'[i].status
           /\ hasPendingReview(baseDecisions') => ~ExportAllowed'
      ]_vars

-----------------------------------------------------------------------------
(* Calls of scoreBreakdown(raw, sourceType) on texts made of phrases *)

MaxPhrases == 2

SourceTypes == {"url", "note", "transcript", "document"}
ClaimTypes == {"opportunity", "risk", "assumption", "unknown"}

\*   1: "survey data confirmed published" (four evidence markers)
\*   2: "Metric" (one evidence marker, capitalised)
\*   3: "maybe guess" (two weak-signal markers)
\*   4: "today latest q1 q2" (four recency markers)
\*   5: "2026" (a recency marker that is also a near-term year)
\*   6: "but however except conflict" (four contradiction markers)
\*   7: "why?" (a question mark)
\*   8: z repeated 91 times (91 characters without a marker)
ScorePhrases ==
    << <<115, 117, 114, 118, 101, 121, 32, 100, 97, 116, 97, 32, 99, 111, 110, 102, 105, 114, 109, 101, 100, 32, 112, 117, 98, 108, 105, 115, 104, 101, 100>>,
       <<77, 101, 116, 114, 105, 99>>,
       <<109, 97, 121, 98, 101, 32, 103, 117, 101, 115, 115>>,
       <<116, 111, 100, 97, 121, 32, 108, 97, 116, 101, 115, 116, 32, 113, 49, 32, 113, 50>>,
       <<50, 48, 50, 54>>,
       <<98, 117, 116, 32, 104, 111, 119, 101, 118, 101, 114, 32, 101, 120, 99, 101, 112, 116, 32, 99, 111, 110, 102, 108, 105, 99, 116>>,
       <<119, 104, 121, 63>>,
       [i \in 1..91 |-> 122] >>

RECURSIVE JoinPhrases(_)
\* the phrases picked, separated by single spaces
JoinPhrases(picks) ==
    IF picks = << >> THEN << >>
    ELSE IF Len(picks) = 1 THEN ScorePhrases[picks[1]]
    ELSE ScorePhrases[picks[1]] \o << 32 >> \o JoinPhrases(Tail(picks))

ScoreTexts ==
    { JoinPhrases(picks) :
        picks \in UNION { [1..n -> 1..Len(ScorePhrases)] : n \in 0..MaxPhrases } }

InitScore ==
    /\ AppConstructed
    /\ fn = "scoreBreakdown"
    /\ args \in [raw : ScoreTexts, sourceType : SourceTypes]
    /\ ret = NoResult

CallScoreBreakdown ==
    /\ fn = "scoreBreakdown"
    /\ ret = NoResult
    /\ ret' = ResultOf(scoreBreakdown(args.raw, args.sourceType))
    /\ UNCHANGED << fn, args, appVars >>

-----------------------------------------------------------------------------
(* Calls of buildDecisions(claims) on the claims of up to MaxClaimSources   *)
(* sources.  A source contributes one claim per type of its shape, in the   *)
(* extractor's order, all with the source's confidence score.              *)

MaxClaimSources == 3

ClaimShapes ==
    { {"opportunity"}, {"risk"}, {"assumption"}, {"unknown"},
      {"opportunity", "risk"}, {"assumption", "unknown"},
      {"opportunity", "risk", "assumption", "unknown"} }

\* confidence scores: the lowest total, and one whose third is 20
ClaimScores == {8, 60}

ClaimTypeOrder == << "opportunity", "risk", "assumption", "unknown" >>

ClaimsOfShape(shape, score, n) ==
    LET types == SelectSeq(ClaimTypeOrder, LAMBDA t : t \in shape)
    IN  [i \in 1..Len(types) |->
            [type |-> types[i],
             confidenceScore |-> score,
             sourceId |-> StrSourceId \o DecimalDigits(n)]]

RECURSIVE ClaimsOfShapes(_, _)
ClaimsOfShapes(shapes, n) ==
    IF shapes = << >> THEN << >>
    ELSE ClaimsOfShape(Head(shapes).shape, Head(shapes).score, n)
            \o ClaimsOfShapes(Tail(shapes), n + 1)

ClaimLists ==
    { ClaimsOfShapes(shapes, 1) :
        shapes \in UNION { [1..n -> [shape : ClaimShapes, score : ClaimScores]] :
                            n \in 0..MaxClaimSources } }

InitDecide ==
    /\ AppConstructed
    /\ fn = "buildDecisions"
    /\ args \in [claims : ClaimLists]
    /\ ret = NoResult

CallBuildDecisions ==
    /\ fn = "buildDecisions"
    /\ ret = NoResult
    /\ ret' = ResultOf(buildDecisions(args.claims))
    /\ UNCHANGED << fn, args, appVars >>

\* the engine is called either for a score breakdown or for the decisions
InitEngine == InitScore \/ InitDecide

NextEngine == CallScoreBreakdown \/ CallBuildDecisions

SpecEngine == InitEngine /\ [][NextEngine]_vars

Horizons == {"24h", "7d", "30d"}

\* C6: buildDecisions returns exactly three decisions, one per horizon, and
\* the decision of a horizon always has the same id: d-24h-1, d-7d-2, d-30d-3.
C6_ThreeDecisionsWithFixedIds ==
    Called("buildDecisions")
    => /\ Len(ret.value) = 3
       /\ \A h \in Horizons : Cardinality({ i \in 1..Len(ret.value) : ret.value[i].horizon = h }) = 1
       /\ \A i \in 1..Len(ret.value) :
            ret.value[i].id = (CASE ret.value[i].horizon = "24h" -> << 100, 45, 50, 52, 104, 45, 49 >>
                           [] ret.value[i].horizon = "7d" -> << 100, 45, 55, 100, 45, 50 >>
                           [] ret.value[i].horizon = "30d" -> << 100, 45, 51, 48, 100, 45, 51 >>)

\* the 7d decision ranks first, ahead of the 24h template that precedes it
C6_Witness ==
    /\ Called("buildDecisions")
    /\ Len(ret.value) = 3
    /\ ret.value[1].horizon = "7d"
    /\ ret.value[1].id = << 100, 45, 55, 100, 45, 50 >>

\* C7: a decision is needs-review exactly when its confidence total is below
\* 46 or its conflict list is non-empty, and accepted otherwise; when both
\* hold, its reasons are the low-confidence reason, then the conflict reason.
C7_AutoGovernance ==
    Called("buildDecisions")
    => \A i \in 1..Len(ret.value) :
        LET low == ret.value[i].scoreBreakdown.total < 46
            conflicting == ret.value[i].conflictSourceIds # << >>
        IN  /\ ret.value[i].status = (IF low \/ conflicting THEN "needs-review" ELSE "accepted")
            /\ (low /\ conflicting)
                => /\ Len(ret.value[i].governanceReasons) = 2
                   /\ ret.value[i].governanceReasons[1]
                        = << "low-confidence score requires reviewer approval" >>
                   /\ ret.value[i].governanceReasons[2]
                        = << "conflicting claims detected in sources: ",
                             ret.value[i].conflictSourceIds >>

\* without conflicts, one decision at 45 needs review and one at 46 is
\* accepted
C7_Witness ==
    /\ Called("buildDecisions")
    /\ \E i, j \in 1..Len(ret.value) :
        /\ ret.value[i].conflictSourceIds = << >>
        /\ ret.value[i].scoreBreakdown.total = 45 /\ ret.value[i].status = "needs-review"
        /\ ret.value[j].scoreBreakdown.total = 46 /\ ret.value[j].status = "accepted"

\* the sources that have both an opportunity claim and a risk claim
ConflictingSources(claimList) ==
    { claimList[i].sourceId :
        i \in { k \in 1..Len(claimList) :
                /\ claimList[k].type = "opportunity"
                /\ \E j \in 1..Len(claimList) : /\ claimList[j].sourceId = claimList[k].sourceId
                                             /\ claimList[j].type = "risk" } }

\* C8: every decision carries the ids of the sources that yield both an
\* opportunity and a risk claim, once each; when there is such a source, all
\* three decisions are needs-review whatever their scores.
C8_IntakeWideConflicts ==
    Called("buildDecisions")
    => \A i \in 1..Len(ret.value) :
        LET ids == ret.value[i].conflictSourceIds
        IN  /\ { ids[k] : k \in 1..Len(ids) } = ConflictingSources(args.claims)
            /\ Len(ids) = Cardinality(ConflictingSources(args.claims))
            /\ ids = ret.value[1].conflictSourceIds
            /\ ids # << >> => ret.value[i].status = "needs-review"

\* a conflict in one of two sources holds back a decision whose total is 46
\* or more
C8_Witness ==
    /\ Called("buildDecisions")
    /\ Cardinality({ args.claims[k].sourceId : k \in 1..Len(args.claims) }) > 1
    /\ Cardinality(ConflictingSources(args.claims)) = 1
    /\ \E i \in 1..Len(ret.value) : /\ ret.value[i].scoreBreakdown.total >= 46
                              /\ ret.value[i].status = "needs-review"

\* C9: at the claim level signalQuality is in 8..45, recency in 0..18,
\* contradictionPenalty in 0..24 and total in 8..95; the total of every
\* decision is in 8..95.
C9_ScoreBounds ==
    /\ Called("scoreBreakdown")
        => /\ ret.value.signalQuality \in 8..45
           /\ ret.value.recency \in 0..18
           /\ ret.value.contradictionPenalty \in 0..24
           /\ ret.value.total \in 8..95
    /\ Called("buildDecisions")
        => \A i \in 1..Len(ret.value) : ret.value[i].scoreBreakdown.total \in 8..95

\* a claim whose components sum to less than 8 has the total 8
C9_Witness ==
    /\ Called("scoreBreakdown")
    /\ ret.value.signalQuality + ret.value.sourceReliability + ret.value.recency - ret.value.contradictionPenalty < 8
    /\ ret.value.signalQuality = 8
    /\ ret.value.contradictionPenalty = 24
    /\ ret.value.total = 8

ClampedTotal(breakdown) ==
    LET sum == breakdown.signalQuality + breakdown.sourceReliability
                + breakdown.recency - breakdown.contradictionPenalty
    IN  IF sum < 8 THEN 8 ELSE IF sum > 95 THEN 95 ELSE sum

\* C10: at both levels total is signalQuality + sourceReliability + recency
\* - contradictionPenalty clamped to 8..95; at the claim level
\* sourceReliability is 24 for a document, 20 for a url, 17 for a transcript
\* and 13 for a note.
C10_TotalIsClampedSum ==
    /\ Called("scoreBreakdown")
        => /\ ret.value.total = ClampedTotal(ret.value)
           /\ ret.value.sourceReliability =
                (CASE args.sourceType = "document" -> 24
                   [] args.sourceType = "url" -> 20
                   [] args.sourceType = "transcript" -> 17
                   [] args.sourceType = "note" -> 13)
    /\ Called("buildDecisions")
        => \A i \in 1..Len(ret.value) : ret.value[i].scoreBreakdown.total = ClampedTotal(ret.value[i].scoreBreakdown)

\* a decision whose components sum to less than 8 has the total 8
C10_Witness ==
    /\ Called("buildDecisions")
    /\ \E i \in 1..Len(ret.value) :
        /\ ret.value[i].scoreBreakdown.signalQuality + ret.value[i].scoreBreakdown.sourceReliability
             + ret.value[i].scoreBreakdown.recency - ret.value[i].scoreBreakdown.contradictionPenalty < 8
        /\ ret.value[i].scoreBreakdown.total = 8

-----------------------------------------------------------------------------
(* Calls of intakeScopeKey on two intake texts with the same session id *)

MaxScopeLen == 2

\* ' ', 'R', 'r', '0', '2'
ScopeAlphabet == {32, 82, 114, 48, 50}

ScopeTexts == UNION { [1..n -> ScopeAlphabet] : n \in 0..MaxScopeLen }

\* no session id, '', "s1"
ScopeSessionIds == { Undefined, << >>, << 115, 49 >> }

InitScope ==
    /\ AppConstructed
    /\ fn = "intakeScopeKey"
    /\ args \in [a : ScopeTexts, b : ScopeTexts, sessionId : ScopeSessionIds]
    /\ ret = NoResult

CallIntakeScopeKey ==
    /\ fn = "intakeScopeKey"
    /\ ret = NoResult
    /\ ret' = ResultOf([a |-> intakeScopeKey(args.a, args.sessionId),
                        b |-> intakeScopeKey(args.b, args.sessionId)])
    /\ UNCHANGED << fn, args, appVars >>

NextScope == CallIntakeScopeKey

SpecScope == InitScope /\ [][NextScope]_vars

Normalized(text) == ToLowerCase(Trim(text))

\* C3: with no session id, two intake texts whose normalized forms differ get
\* different scope keys.
C3_DistinctIntakesDistinctScopes ==
    (Called("intakeScopeKey") /\ args.sessionId = Undefined
        /\ Normalized(args.a) # Normalized(args.b))
    => ret.value.a # ret.value.b

\* C5: the scope key depends only on the normalized intake: equal normalized
\* texts get equal keys, a blank text gets "intake:empty", and a (non-empty)
\* session id gives "session:<id>" whatever the text.
C5_ScopeKeyOfNormalizedIntake ==
    (Called("intakeScopeKey"))
    => /\ Normalized(args.a) = Normalized(args.b) => ret.value.a = ret.value.b
       /\ (~Truthy(args.sessionId) /\ Trim(args.a) = << >>) => ret.value.a = StrIntakeEmpty
       /\ Truthy(args.sessionId)
            => /\ ret.value.a = StrSession \o args.sessionId
               /\ ret.value.b = StrSession \o args.sessionId

\* two texts that differ as typed and agree once normalized have been keyed
\* without a session id
C5_Witness ==
    /\ Called("intakeScopeKey")
    /\ args.sessionId = Undefined
    /\ args.a # args.b
    /\ Normalized(args.a) = Normalized(args.b)
    /\ Normalized(args.a) # << >>
    /\ ret.value.a = ret.value.b

-----------------------------------------------------------------------------
(* Calls of saveReviewerDecision and loadReviewerDecisions on one           *)
(* sessionStorage, under the scope keys of three intakes.  The note of an   *)
(* entry names the scope it is saved under; current is the empty map or the *)
(* map persisted for that scope.                                            *)

MaxStoreCalls == 3

\* "intake:empty", the key of "a" and "session:s1"
StoreScopes ==
    { intakeScopeKey(<< >>, Undefined),
      intakeScopeKey(<< 97 >>, Undefined),
      intakeScopeKey(<< 97 >>, << 115, 49 >>) }

StoreDecisionIds == { decisionId("24h", 0), decisionId("30d", 2) }

\* the variables a storage call leaves alone
storeFrame == << intakeText, sessionName, sessions, activeSession, notice, storageError,
                 reviewers, memoVars, localItems, downloads >>

InitStore ==
    /\ AppConstructed
    /\ fn = "sessionStorage"
    /\ args = << >>
    /\ ret = NoResult

CallSaveReviewerDecision ==
    /\ clock < MaxStoreCalls
    /\ \E scopeKey \in StoreScopes, id \in StoreDecisionIds,
          fromStored \in BOOLEAN, setItemThrows \in BOOLEAN :
        LET storage == Storage(sessionItems, setItemThrows)
            current == IF fromStored THEN loadReviewerDecisions(scopeKey, storage)
                       ELSE EmptyObject
            entry == [decisionId |-> id, status |-> "accepted", notes |-> scopeKey,
                      updatedAt |-> clock + 1]
            result == saveReviewerDecision(entry, current, scopeKey, storage)
        IN  /\ fn' = "saveReviewerDecision"
            /\ args' = [entry |-> entry, current |-> current, scopeKey |-> scopeKey,
                        storage |-> storage]
            /\ ret' = ResultOf(result)
            /\ sessionItems' = result.items
            /\ clock' = clock + 1
    /\ UNCHANGED storeFrame

CallLoadReviewerDecisions ==
    /\ \E scopeKey \in StoreScopes :
        /\ fn' = "loadReviewerDecisions"
        /\ args' = [scopeKey |-> scopeKey, storage |-> Storage(sessionItems, FALSE)]
        /\ ret' = ResultOf(loadReviewerDecisions(scopeKey, Storage(sessionItems, FALSE)))
    /\ UNCHANGED << sessionItems, clock, storeFrame >>

NextStore == CallSaveReviewerDecision \/ CallLoadReviewerDecisions

SpecStore == InitStore /\ [][NextStore]_vars

\* what is persisted for a scope
PersistedMap(scopeKey, items) == loadReviewerDecisions(scopeKey, Storage(items, FALSE))

\* C4: reviewer storage is partitioned by scope key.  A save under scope A
\* leaves the persisted map of every other scope as it was before the call;
\* every entry persisted for, or loaded under, a scope was saved under that
\* scope; a scope loads as the empty map until a save under it succeeds, and
\* every scope of the fresh storage loads as the empty map.
C4_ScopesPartitioned ==
    /\ \A scopeKey \in StoreScopes : PersistedMap(scopeKey, sessionItems) = EmptyObject
    /\ [][ /\ fn' = "saveReviewerDecision"
               => \A scopeKey \in StoreScopes \ { args'.scopeKey } :
                    PersistedMap(scopeKey, sessionItems') = PersistedMap(scopeKey, args'.storage.items)
           /\ \A scopeKey \in StoreScopes :
                \A i \in 1..Len(PersistedMap(scopeKey, sessionItems')) :
                    PersistedMap(scopeKey, sessionItems')[i].value.notes = scopeKey
           /\ fn' = "loadReviewerDecisions"
               => \A i \in 1..Len(ret'.value) : ret'.value[i].value.notes = args'.scopeKey
           /\ \A scopeKey \in StoreScopes :
                (/\ PersistedMap(scopeKey, sessionItems) = EmptyObject
                 /\ ~(fn' = "saveReviewerDecision" /\ args'.scopeKey = scopeKey
                        /\ ~ret'.value.threw /\ clock' # clock))
                => PersistedMap(scopeKey, sessionItems') = EmptyObject ]_vars

\* a save under one scope has succeeded while a second scope holds an entry
\* and a third has never been written
C4_Witness ==
    /\ fn = "saveReviewerDecision"
    /\ ~ret.value.threw
    /\ PersistedMap(args.scopeKey, sessionItems) # EmptyObject
    /\ \E other, fresh \in StoreScopes \ { args.scopeKey } :
        /\ other # fresh
        /\ PersistedMap(other, args.storage.items) # EmptyObject
        /\ PersistedMap(other, sessionItems) = PersistedMap(other, args.storage.items)
        /\ PersistedMap(fresh, sessionItems) = EmptyObject

-----------------------------------------------------------------------------
(* Calls of buildClaims(parseSources(input)) on inputs of up to             *)
(* MaxClaimLines lines                                                      *)

MaxClaimLines == 2

\*   1: "" (a blank line)
\*   2: "growth" (a note, total 31)
\*   3: "https://a.b/data" (a url, total 46)
\*   4: "transcript: 2026" (a transcript, total 45)
\*   5: "report data confirmed published today" (a document, total 72)
\*   6: "https://a.b/ data confirmed published survey today" (a url, total 71)
\*   7: "churn?" (a note with a risk and an unknown marker, total 25)
\*   8: "memo likely maybe" (a document with an assumption marker, total 36)
ClaimLines ==
    << <<>>,
       <<103, 114, 111, 119, 116, 104>>,
       <<104, 116, 116, 112, 115, 58, 47, 47, 97, 46, 98, 47, 100, 97, 116, 97>>,
       <<116, 114, 97, 110, 115, 99, 114, 105, 112, 116, 58, 32, 50, 48, 50, 54>>,
       <<114, 101, 112, 111, 114, 116, 32, 100, 97, 116, 97, 32, 99, 111, 110, 102, 105, 114, 109, 101, 100, 32, 112, 117, 98, 108, 105, 115, 104, 101, 100, 32, 116, 111, 100, 97, 121>>,
       <<104, 116, 116, 112, 115, 58, 47, 47, 97, 46, 98, 47, 32, 100, 97, 116, 97, 32, 99, 111, 110, 102, 105, 114, 109, 101, 100, 32, 112, 117, 98, 108, 105, 115, 104, 101, 100, 32, 115, 117, 114, 118, 101, 121, 32, 116, 111, 100, 97, 121>>,
       <<99, 104, 117, 114, 110, 63>>,
       <<109, 101, 109, 111, 32, 108, 105, 107, 101, 108, 121, 32, 109, 97, 121, 98, 101>> >>

RECURSIVE JoinLines(_)
\* the lines picked, separated by "\n"
JoinLines(picks) ==
    IF picks = << >> THEN << >>
    ELSE IF Len(picks) = 1 THEN ClaimLines[picks[1]]
    ELSE ClaimLines[picks[1]] \o << 10 >> \o JoinLines(Tail(picks))

ClaimInputs ==
    { JoinLines(picks) :
        picks \in UNION { [1..n -> 1..Len(ClaimLines)] : n \in 0..MaxClaimLines } }

InitClaims ==
    /\ AppConstructed
    /\ fn = "buildClaims"
    /\ args \in [input : ClaimInputs]
    /\ ret = NoResult

CallBuildClaims ==
    /\ fn = "buildClaims"
    /\ ret = NoResult
    /\ ret' = ResultOf(buildClaims(parseSources(args.input)))
    /\ UNCHANGED << fn, args, appVars >>

NextClaims == CallBuildClaims

SpecClaims == InitClaims /\ [][NextClaims]_vars

\* C11: every claim buildClaims returns has confidenceScore equal to its
\* scoreBreakdown.total, and its confidence is the bucket of that score: high
\* from 72, medium from 46 to 71, low below 46.
C11_ConfidenceMatchesScore ==
    Called("buildClaims")
    => \A i \in 1..Len(ret.value) :
        /\ ret.value[i].confidenceScore = ret.value[i].scoreBreakdown.total
        /\ ret.value[i].confidence = "high" <=> ret.value[i].confidenceScore >= 72
        /\ ret.value[i].confidence = "medium"
            <=> (ret.value[i].confidenceScore >= 46 /\ ret.value[i].confidenceScore < 72)
        /\ ret.value[i].confidence = "low" <=> ret.value[i].confidenceScore < 46

\* claims at the scores 72 and 71 have been built from one input, and claims
\* at 46 and 45 from another
C11_Witness ==
    /\ Called("buildClaims")
    /\ \/ \E i, j \in 1..Len(ret.value) :
            /\ ret.value[i].confidenceScore = 72 /\ ret.value[i].confidence = "high"
            /\ ret.value[j].confidenceScore = 71 /\ ret.value[j].confidence = "medium"
       \/ \E i, j \in 1..Len(ret.value) :
            /\ ret.value[i].confidenceScore = 46 /\ ret.value[i].confidence = "medium"
            /\ ret.value[j].confidenceScore = 45 /\ ret.value[j].confidence = "low"

-----------------------------------------------------------------------------
(* Calls of mergeReviewerDecisions(decisions, reviewerMap) on the decisions *)
(* of three claim lists and reviewer maps of up to MaxReviewEntries entries *)

MaxReviewEntries == 2

\* no claims; one source with an opportunity and a risk claim (a conflict);
\* one source with an opportunity claim
MergeDecisionLists ==
    { buildDecisions(<< >>),
      buildDecisions(ClaimsOfShape({"opportunity", "risk"}, 60, 1)),
      buildDecisions(ClaimsOfShape({"opportunity"}, 60, 1)) }

\* '', "  " and " ok "
MergeNotes == { << >>, << 32, 32 >>, << 32, 111, 107, 32 >> }

MergeEntries(id) ==
    { [decisionId |-> id, status |-> status, notes |-> notes, updatedAt |-> 0] :
        status \in ReviewStatuses, notes \in MergeNotes }

MergeIds == << decisionId("24h", 0), decisionId("7d", 1), decisionId("30d", 2) >>

RECURSIVE MergeMapsFrom(_)
\* the maps with entries for some of the ids from position k on, in that order
MergeMapsFrom(k) ==
    IF k > Len(MergeIds) THEN { EmptyObject }
    ELSE MergeMapsFrom(k + 1)
         \cup { << [key |-> MergeIds[k], value |-> entry] >> \o rest :
                  entry \in MergeEntries(MergeIds[k]), rest \in MergeMapsFrom(k + 1) }

MergeMaps == { map \in MergeMapsFrom(1) : Len(map) =< MaxReviewEntries }

InitMerge ==
    /\ AppConstructed
    /\ fn = "mergeReviewerDecisions"
    /\ args \in [decisions : MergeDecisionLists, reviewerMap : MergeMaps]
    /\ ret = NoResult

CallMergeReviewerDecisions ==
    /\ fn = "mergeReviewerDecisions"
    /\ ret = NoResult
    /\ ret' = ResultOf(mergeReviewerDecisions(args.decisions, args.reviewerMap))
    /\ args' = mergeReviewerDecisionsInputs(args.decisions, args.reviewerMap)
    /\ UNCHANGED << fn, appVars >>

NextMerge == CallMergeReviewerDecisions

SpecMerge == InitMerge /\ [][NextMerge]_vars

\* C12: a decision whose id is a key of the reviewer map gets the entry's
\* status, and its governanceReasons are the original reasons in order, then
\* 'reviewer set status to <status>', then 'reviewer note: <trimmed notes>'
\* if and only if the trimmed notes are non-empty.
C12_ReviewerOverride ==
    Called("mergeReviewerDecisions")
    => \A i \in 1..Len(args.decisions) :
        ObjHas(args.reviewerMap, args.decisions[i].id)
        => LET entry == ObjGet(args.reviewerMap, args.decisions[i].id)
               original == args.decisions[i].governanceReasons
               merged == ret.value[i].governanceReasons
               noted == \E k \in 1..Len(entry.notes) : ~IsWhiteSpace(entry.notes[k])
           IN  /\ ret.value[i].status = entry.status
               /\ Len(merged) = Len(original) + (IF noted THEN 2 ELSE 1)
               /\ SubSeq(merged, 1, Len(original)) = original
               /\ merged[Len(original) + 1] = << "reviewer set status to ", entry.status >>
               /\ noted => merged[Len(original) + 2] = << "reviewer note: ", Trim(entry.notes) >>

\* a decision with two auto-governance reasons has been overridden with the
\* notes " ok ", and another one with notes of spaces only
C12_Witness ==
    /\ Called("mergeReviewerDecisions")
    /\ \E i, j \in 1..Len(ret.value) :
        /\ Len(args.decisions[i].governanceReasons) = 2
        /\ Len(ret.value[i].governanceReasons) = 4
        /\ ret.value[i].governanceReasons[4] = << "reviewer note: ", << 111, 107 >> >>
        /\ ObjHas(args.reviewerMap, args.decisions[j].id)
        /\ ObjGet(args.reviewerMap, args.decisions[j].id).notes = << 32, 32 >>
        /\ Len(ret.value[j].governanceReasons) = Len(args.decisions[j].governanceReasons) + 1

-----------------------------------------------------------------------------
(* Calls of saveSessionToStorage on one localStorage, each given the list   *)
(* the call before returned.  The storage starts with the list of up to     *)
(* SessionCap sessions saved before time 0, newest first.                   *)

MaxSessionSaves == 3

\* the length slice(0, 20) cuts the list to
SessionCap == 20

\* "p" and the position: the id of a session saved before time 0
EarlierSession(position) ==
    [id |-> << 112 >> \o DecimalDigits(position), name |-> << 111, 108, 100 >>,
     createdAt |-> 1 - position, intakeText |-> << >>]

EarlierSessions(count) == [position \in 1..count |-> EarlierSession(position)]

InitSessions ==
    /\ \E count \in 0..SessionCap :
        /\ sessions = EarlierSessions(count)
        /\ localItems = IF count = 0 THEN EmptyObject
                        ELSE ObjSet(EmptyObject, SESSION_KEY,
                                    JSONStringify(EarlierSessions(count)))
    /\ intakeText = << >>
    /\ sessionName = << >>
    /\ activeSession = << >>
    /\ notice = NoticeReady
    /\ storageError = Null
    /\ reviewers = EmptyObject
    /\ sources = parseSources(intakeText)
    /\ claims = buildClaims(sources)
    /\ baseDecisions = buildDecisions(claims)
    /\ intakeIssues = validateIntake(intakeText)
    /\ sessionItems = EmptyObject
    /\ downloads = {}
    /\ clock = 0
    /\ fn = "localStorage"
    /\ args = << >>
    /\ ret = NoResult

CallSaveSessionToStorage ==
    /\ clock < MaxSessionSaves
    /\ \E name \in SessionNames \ { << >> }, setItemThrows \in BOOLEAN :
        LET storage == Storage(localItems, setItemThrows)
            session == [id |-> randomUUID(clock + 1), name |-> name,
                        createdAt |-> clock + 1, intakeText |-> << >>]
            result == saveSessionToStorage(session, sessions, storage)
        IN  /\ fn' = "saveSessionToStorage"
            /\ args' = [session |-> session, existing |-> sessions, storage |-> storage]
            /\ ret' = ResultOf(result)
            /\ localItems' = result.items
            /\ sessions' = IF result.threw THEN sessions ELSE result.value
            /\ clock' = clock + 1
    /\ UNCHANGED << intakeText, sessionName, activeSession, notice, storageError, reviewers,
                    memoVars, sessionItems, downloads >>

NextSessions == CallSaveSessionToStorage

SpecSessions == InitSessions /\ [][NextSessions]_vars

\* C15: a save that succeeds returns, and stores under the session key, the
\* new session followed by the existing list, cut to its first 20 entries;
\* the list held after any sequence of saves has at most 20 entries, is
\* ordered newest first and is what the storage holds; a save onto a list of
\* 20 drops the oldest session, the last of the list, and no other.
C15_SessionCap ==
    /\ Len(sessions) =< 20
    /\ \A i, j \in 1..Len(sessions) : i < j => sessions[i].createdAt > sessions[j].createdAt
    /\ loadSessions(Storage(localItems, FALSE)) = sessions
    /\ (fn = "saveSessionToStorage" /\ ~ret.value.threw)
        => /\ ret.value.value = sessions
           /\ Len(sessions) = IF Len(args.existing) < 20 THEN Len(args.existing) + 1 ELSE 20
           /\ sessions[1] = args.session
           /\ \A i \in 2..Len(sessions) : sessions[i] = args.existing[i - 1]

\* a session has been saved onto a list of 20
C15_Witness ==
    /\ fn = "saveSessionToStorage"
    /\ ~ret.value.threw
    /\ Len(args.existing) = 20
    /\ Len(sessions) = 20
    /\ args.existing[20] \notin { sessions[i] : i \in 1..Len(sessions) }

\* C16: a save that is given the map the scope holds (the map the save
\* before returned) and succeeds leaves the scope with one entry per
\* decisionId: the entry saved, for its decisionId, and for every other
\* decisionId the entry the scope held; this map is returned and persisted.
C16_LastWriteWins ==
    [][ (/\ fn' = "saveReviewerDecision" /\ clock' # clock /\ ~ret'.value.threw
         /\ args'.current = PersistedMap(args'.scopeKey, sessionItems))
        => LET held == args'.current
               saved == PersistedMap(args'.scopeKey, sessionItems')
               ids == { saved[i].key : i \in 1..Len(saved) }
           IN  /\ ret'.value.value = saved
               /\ Cardinality(ids) = Len(saved)
               /\ ids = { held[i].key : i \in 1..Len(held) } \cup { args'.entry.decisionId }
               /\ ObjGet(saved, args'.entry.decisionId) = args'.entry
               /\ \A i \in 1..Len(held) :
                    held[i].key # args'.entry.decisionId
                    => ObjGet(saved, held[i].key) = held[i].value
      ]_vars

\* the third save on a scope has replaced the entry of the first and kept the
\* entry of the second
C16_Witness ==
    /\ fn = "saveReviewerDecision"
    /\ ~ret.value.threw
    /\ Len(args.current) = 2
    /\ ObjHas(args.current, args.entry.decisionId)
    /\ ObjGet(args.current, args.entry.decisionId).updatedAt = 1
    /\ args.entry.updatedAt = 3
    /\ \E i \in 1..Len(ret.value.value) :
        /\ ret.value.value[i].value.updatedAt = 2
        /\ ret.value.value[i].key # args.entry.decisionId
    /\ Len(PersistedMap(args.scopeKey, sessionItems)) = 2
    /\ ObjGet(PersistedMap(args.scopeKey, sessionItems), args.entry.decisionId) = args.entry

-----------------------------------------------------------------------------
(* Calls of loadSessions, loadReviewerDecisions and saveReviewerDecision on *)
(* storages whose items were written by something else: under each key no   *)
(* item, '', text that is no JSON, the JSON texts "null" and "42", or what   *)
(* the wrappers write.                                                      *)

\* '' and "{b"
StoredTexts == { << "text", << >> >>, << "text", << 123, 98 >> >> }

\* "null" and "42"
StoredOtherJSON == { << "json", Null >>, << "json", JSONNumber >> }

StoredSessionStrings ==
    StoredTexts \cup StoredOtherJSON \cup { JSONStringify(EarlierSessions(1)) }

StoredReviewerStrings ==
    StoredTexts \cup StoredOtherJSON \cup { ReviewedEarlier[1].value }

\* the storage that holds the string under the key, or no item
ItemsOf(key, strings) ==
    { EmptyObject } \cup { ObjSet(EmptyObject, key, string) : string \in strings }

InitStored ==
    /\ intakeText = << >>
    /\ sessionName = << >>
    /\ sessions = << >>
    /\ activeSession = << >>
    /\ notice = NoticeReady
    /\ storageError = Null
    /\ reviewers = EmptyObject
    /\ sources = parseSources(intakeText)
    /\ claims = buildClaims(sources)
    /\ baseDecisions = buildDecisions(claims)
    /\ intakeIssues = validateIntake(intakeText)
    /\ localItems \in ItemsOf(SESSION_KEY, StoredSessionStrings)
    /\ sessionItems \in ItemsOf(REVIEWER_KEY, StoredReviewerStrings)
    /\ downloads = {}
    /\ clock = 0
    /\ fn = "storage"
    /\ args = << >>
    /\ ret = NoResult

CallLoadSessions ==
    /\ fn' = "loadSessions"
    /\ args' = [storage |-> Storage(localItems, FALSE)]
    /\ ret' = ResultOf(loadSessions(Storage(localItems, FALSE)))
    /\ UNCHANGED << sessionItems, clock, storeFrame >>

\* a first reviewer entry is saved: current is {}
CallSaveFirstReviewerDecision ==
    /\ clock < MaxStoreCalls
    /\ \E scopeKey \in StoreScopes, id \in StoreDecisionIds, setItemThrows \in BOOLEAN :
        LET storage == Storage(sessionItems, setItemThrows)
            entry == [decisionId |-> id, status |-> "accepted", notes |-> scopeKey,
                      updatedAt |-> clock + 1]
            result == saveReviewerDecision(entry, EmptyObject, scopeKey, storage)
        IN  /\ fn' = "saveReviewerDecision"
            /\ args' = [entry |-> entry, current |-> EmptyObject, scopeKey |-> scopeKey,
                        storage |-> storage]
            /\ ret' = ResultOf(result)
            /\ sessionItems' = result.items
            /\ clock' = clock + 1
    /\ UNCHANGED storeFrame

NextStored ==
    \/ CallLoadSessions
    \/ CallLoadReviewerDecisions
    \/ CallSaveFirstReviewerDecision

SpecStored == InitStored /\ [][NextStored]_vars

\* the string under the key is no JSON text, or the JSON text of null or 42
Malformed(storage, key) ==
    /\ ObjHas(storage.items, key)
    /\ \/ ~IsJSONText(ObjGet(storage.items, key))
       \/ ObjGet(storage.items, key) \in StoredOtherJSON

C17_UnparseableFailsOpen ==
    /\ (fn = "loadSessions"
            /\ (~ObjHas(args.storage.items, SESSION_KEY)
                 \/ ~IsJSONText(GetItem(args.storage, SESSION_KEY))))
        => ret.value = << >>
    /\ (fn = "loadReviewerDecisions"
            /\ (~ObjHas(args.storage.items, REVIEWER_KEY)
                 \/ ~IsJSONText(GetItem(args.storage, REVIEWER_KEY))))
        => ret.value = EmptyObject
    /\ (fn = "saveReviewerDecision" /\ ~ret.value.threw
            /\ (~ObjHas(args.storage.items, REVIEWER_KEY) \/ Malformed(args.storage, REVIEWER_KEY)))
        => ObjGet(sessionItems, REVIEWER_KEY)
            = JSONStringify(<< [key |-> args.scopeKey, value |-> ret.value.value] >>)

-----------------------------------------------------------------------------
(* The App in a browser that holds a saved session, and in whose tab the    *)
(* three decisions may have been reviewed: intake edits, the session name,  *)
(* session saves and reviewer actions, with a setItem that may throw.       *)

InitSave ==
    /\ intakeText = << >>
    /\ sessionName = << >>
    /\ localItems = ObjSet(EmptyObject, SESSION_KEY, JSONStringify(EarlierSessions(1)))
    /\ sessions = loadSessions(Storage(localItems, FALSE))
    /\ activeSession = << >>
    /\ notice = NoticeReady
    /\ storageError = Null
    /\ sessionItems \in { EmptyObject, ReviewedEarlier }
    /\ reviewers = loadReviewerDecisions(Undefined, Storage(sessionItems, FALSE))
    /\ sources = parseSources(intakeText)
    /\ claims = buildClaims(sources)
    /\ baseDecisions = buildDecisions(claims)
    /\ intakeIssues = validateIntake(intakeText)
    /\ downloads = {}
    /\ clock = 0
    /\ fn = "App"
    /\ args = << >>
    /\ ret = NoResult

NextSave ==
    \/ ChangeIntake
    \/ ChangeSessionName
    \/ saveSession
    \/ ChangeReviewStatus
    \/ ChangeReviewNotes

SpecSave == InitSave /\ [][NextSave]_vars

\* C18: when setItem throws, saveSessionToStorage and saveReviewerDecision
\* throw to their caller, and a step of saveSession or updateReviewer whose
\* write failed (the stored item is as before) leaves sessions, reviewers
\* and intakeText, and the rest of the App's state, as they were: only
\* storageError and notice change, to the messages of the failure.
C18_FailedSaveKeepsState ==
    [][ /\ saveSessionToStorage(EarlierSession(0), sessions, Storage(localItems, TRUE))
            = Threw(localItems)
        /\ saveReviewerDecision([decisionId |-> decisionId("24h", 0), status |-> "rejected",
                                 notes |-> << >>, updatedAt |-> clock],
                                reviewers, Undefined, Storage(sessionItems, TRUE))
            = Threw(sessionItems)
        /\ (saveSession /\ Trim(sessionName) # << >> /\ Len(intakeIssues) = 0
                /\ localItems' = localItems)
            => /\ UNCHANGED << sessions, reviewers, intakeText, sessionName, activeSession,
                               memoVars, sessionItems, downloads >>
               /\ storageError' = << "Unable to save session in browser storage. Check storage permissions or quota." >>
               /\ notice' = << "Session save failed." >>
        /\ ((ChangeReviewStatus \/ ChangeReviewNotes) /\ sessionItems' = sessionItems)
            => /\ UNCHANGED << sessions, reviewers, intakeText, sessionName, activeSession,
                               memoVars, localItems, downloads >>
               /\ storageError' = << "Unable to persist reviewer actions in session storage." >>
               /\ notice' = << "Reviewer save failed." >>
      ]_vars

\* a session save has failed in an App that holds a session, reviewer
\* entries, a valid intake and the name typed for the session
C18_Witness ==
    /\ notice = << "Session save failed." >>
    /\ storageError = << "Unable to save session in browser storage. Check storage permissions or quota." >>
    /\ sessions = EarlierSessions(1)
    /\ localItems = ObjSet(EmptyObject, SESSION_KEY, JSONStringify(EarlierSessions(1)))
    /\ reviewers # EmptyObject
    /\ intakeText = IntakeHeldBack
    /\ sessionName # << >>
    /\ clock = 1

-----------------------------------------------------------------------------
(* Runs of parseSources, buildClaims, buildDecisions and                    *)
(* mergeReviewerDecisions on one intake text and one reviewer map, up to    *)
(* MaxRuns of them, while time passes and the tab's sessionStorage is       *)
(* written between the runs.                                                *)

MaxRuns == 2

\* '', "growth" over "churn?", the held-back text and the cleared text
RunTexts == { << >>, JoinLines(<< 2, 7 >>), IntakeHeldBack, IntakeCleared }

\* no entry; an entry for the 30d decision; the same and an entry for the
\* 24h decision with the status rejected and the notes " ok "
RunMaps ==
    { EmptyObject }
    \cup { << [key |-> MergeIds[3], value |-> entry] >> : entry \in MergeEntries(MergeIds[3]) }
    \cup { << [key |-> MergeIds[1],
               value |-> [decisionId |-> MergeIds[1], status |-> "rejected",
                          notes |-> << 32, 111, 107, 32 >>, updatedAt |-> 0]],
              [key |-> MergeIds[3], value |-> entry] >> : entry \in MergeEntries(MergeIds[3]) }

\* what one run returns, stage by stage
Pipeline(intakeText_, reviewerMap) ==
    LET parsed == parseSources(intakeText_)
        built == buildClaims(parsed)
        ranked == buildDecisions(built)
    IN  [sources |-> parsed, claims |-> built, baseDecisions |-> ranked,
         decisions |-> mergeReviewerDecisions(ranked, reviewerMap)]

InitRuns ==
    /\ AppConstructed
    /\ fn = "pipeline"
    /\ args \in [intakeText : RunTexts, reviewerMap : RunMaps]
    /\ ret = NoResult

\* one more run; ret.value is the list of the runs' results
RunPipeline ==
    /\ Len(ret.value) < MaxRuns
    /\ ret' = ResultOf(Append(ret.value, Pipeline(args.intakeText, args.reviewerMap)))
    /\ UNCHANGED << fn, args, appVars >>

TimePasses ==
    /\ clock < MaxRuns
    /\ clock' = clock + 1
    /\ UNCHANGED << intakeText, memoVars, sessionName, sessions, activeSession, notice,
                    storageError, reviewers, localItems, sessionItems, downloads,
                    fn, args, ret >>

\* the tab's sessionStorage gets the reviewer entries of other use, or is
\* cleared
StorageWritten ==
    /\ sessionItems' \in { EmptyObject, ReviewedEarlier } \ { sessionItems }
    /\ UNCHANGED << intakeText, memoVars, sessionName, sessions, activeSession, notice,
                    storageError, reviewers, localItems, downloads, clock, fn, args, ret >>

NextRuns == RunPipeline \/ TimePasses \/ StorageWritten

SpecRuns == InitRuns /\ [][NextRuns]_vars

-----------------------------------------------------------------------------
(* The order of the decisions buildDecisions returns (SpecEngine), and of   *)
(* the same decisions merged with the reviewer maps of RunMaps.             *)

\* the position of the horizon's row in buildDecisions
HorizonRank(horizon) == IF horizon = "24h" THEN 1 ELSE IF horizon = "7d" THEN 2 ELSE 3

\* each decision has a higher score than the ones after it, or the same
\* score and an earlier horizon
InRankingOrder(list) ==
    \A i, j \in 1..Len(list) :
        i < j => \/ list[i].score > list[j].score
                 \/ /\ list[i].score = list[j].score
                    /\ HorizonRank(list[i].horizon) < HorizonRank(list[j].horizon)

\* C20: the list buildDecisions returns is in non-increasing order of score,
\* decisions of equal score are in the order 24h, 7d, 30d, and the list
\* merged with a reviewer map has the same decisions at the same positions,
\* so the same order.
C20_RankingOrder ==
    Called("buildDecisions")
    => /\ InRankingOrder(ret.value)
       /\ \A reviewerMap \in RunMaps :
            LET merged == mergeReviewerDecisions(ret.value, reviewerMap)
            IN  /\ InRankingOrder(merged)
                /\ Len(merged) = Len(ret.value)
                /\ \A i \in 1..Len(merged) : merged[i].id = ret.value[i].id

\* buildDecisions has returned the decisions in another order than that of
\* its rows: the 30d decision first, then 24h, then 7d
C20_Witness ==
    /\ Called("buildDecisions")
    /\ ret.value[1].horizon = "30d"
    /\ ret.value[2].horizon = "24h"
    /\ ret.value[3].horizon = "7d"
    /\ ret.value[1].score > ret.value[2].score
    /\ ret.value[2].score > ret.value[3].score

\* no two of the three decisions have the same score
C20_NoTies ==
    Called("buildDecisions")
    => \A i, j \in 1..Len(ret.value) : i # j => ret.value[i].score # ret.value[j].score

-----------------------------------------------------------------------------
(* Calls of extractClaimsForSource(source) on sources of every type whose   *)
(* raw text is made of up to MaxExtractWords words.                         *)

MaxExtractWords == 3

\* "Growth" (opportunity, capitalised), "churn" (risk), "likely"
\* (assumption), "tbd" (unknown), "hello" (no category)
ExtractWords ==
    << << 71, 114, 111, 119, 116, 104 >>,
       << 99, 104, 117, 114, 110 >>,
       << 108, 105, 107, 101, 108, 121 >>,
       << 116, 98, 100 >>,
       << 104, 101, 108, 108, 111 >> >>

RECURSIVE JoinWords(_)
\* the words picked, separated by single spaces
JoinWords(picks) ==
    IF picks = << >> THEN << >>
    ELSE IF Len(picks) = 1 THEN ExtractWords[picks[1]]
    ELSE ExtractWords[picks[1]] \o << 32 >> \o JoinWords(Tail(picks))

ExtractTexts ==
    { JoinWords(picks) :
        picks \in UNION { [1..n -> 1..Len(ExtractWords)] : n \in 1..MaxExtractWords } }

InitExtract ==
    /\ AppConstructed
    /\ fn = "extractClaimsForSource"
    /\ \E raw \in ExtractTexts, type \in SourceTypes :
        args = [source |-> [id |-> StrSourceId \o DecimalDigits(1), raw |-> raw,
                            type |-> type, valid |-> TRUE]]
    /\ ret = NoResult

CallExtractClaimsForSource ==
    /\ fn = "extractClaimsForSource"
    /\ ret = NoResult
    /\ ret' = ResultOf(extractClaimsForSource(args.source))
    /\ UNCHANGED << fn, args, appVars >>

NextExtract == CallExtractClaimsForSource

SpecExtract == InitExtract /\ [][NextExtract]_vars

\* the position of a claim type in the extractor's order
ClaimTypeRank(type) == CHOOSE k \in 1..Len(ClaimTypeOrder) : ClaimTypeOrder[k] = type

\* a keyword of the type occurs in the lowercased text, or the type is
\* opportunity and the source is a url
CategoryMatched(source, type) ==
    \/ \E k \in 1..Len(SIGNALS[type]) : Includes(ToLowerCase(source.raw), SIGNALS[type][k])
    \/ type = "opportunity" /\ source.type = "url"

IsFallbackClaim(claim) == claim.text[1] = "Context captured but under-specified"

\* C21: extractClaimsForSource returns 1 to 4 claims, at most one per type,
\* in the order opportunity, risk, assumption, unknown; when a category
\* matched, the claims are those of the matched categories and none is the
\* fallback; when none matched, the only claim is the fallback, of type
\* assumption for a note and unknown for any other source type.
C21_ClaimsPerSource ==
    Called("extractClaimsForSource")
    => LET out == ret.value
           source == args.source
           matched == { type \in ClaimTypes : CategoryMatched(source, type) }
       IN  /\ Len(out) \in 1..4
           /\ \A i, j \in 1..Len(out) :
                i < j => ClaimTypeRank(out[i].type) < ClaimTypeRank(out[j].type)
           /\ \A i \in 1..Len(out) : out[i].sourceId = source.id
           /\ matched # {}
                => /\ { out[i].type : i \in 1..Len(out) } = matched
                   /\ \A i \in 1..Len(out) : ~IsFallbackClaim(out[i])
           /\ matched = {}
                => /\ Len(out) = 1
                   /\ IsFallbackClaim(out[1])
                   /\ out[1].type = (IF source.type = "note" THEN "assumption" ELSE "unknown")

\* a note without a keyword has got the fallback claim, of type assumption
C21_Witness ==
    /\ Called("extractClaimsForSource")
    /\ args.source.type = "note"
    /\ args.source.raw = ExtractWords[5]
    /\ Len(ret.value) = 1
    /\ IsFallbackClaim(ret.value[1])
    /\ ret.value[1].type = "assumption"

\* a source has got a claim of each of the four types
C21_FourClaims ==
    Called("extractClaimsForSource") /\ Len(ret.value) = 4

\* a url without an opportunity keyword has got an opportunity claim
C21_UrlOpportunity ==
    /\ Called("extractClaimsForSource")
    /\ args.source.type = "url"
    /\ ~Includes(ToLowerCase(args.source.raw), ToLowerCase(ExtractWords[1]))
    /\ ret.value[1].type = "opportunity"

-----------------------------------------------------------------------------
(* The governance reasons of the decisions buildDecisions returns           *)
(* (SpecEngine), and of the same decisions merged with the reviewer maps of *)
(* RunMaps.                                                                 *)

\* C22: every decision buildDecisions returns has at least one governance
\* reason; the reason 'passes deterministic scoring and conflict checks' is
\* among them exactly when the total is 46 or more and there is no conflict
\* source, and then it is the only one; and a decision merged with a
\* reviewer map has its reasons as a prefix of the merged reasons.
C22_ReasonsNonEmpty ==
    Called("buildDecisions")
    => /\ \A i \in 1..Len(ret.value) :
            LET reasons == ret.value[i].governanceReasons
                passes == << "passes deterministic scoring and conflict checks" >>
                triggered == \/ ret.value[i].scoreBreakdown.total < 46
                             \/ Len(ret.value[i].conflictSourceIds) > 0
            IN  /\ Len(reasons) >= 1
                /\ (\E k \in 1..Len(reasons) : reasons[k] = passes) <=> ~triggered
                /\ ~triggered => reasons = << passes >>
       /\ \A reviewerMap \in RunMaps :
            LET merged == mergeReviewerDecisions(ret.value, reviewerMap)
            IN  \A i \in 1..Len(merged) :
                    /\ Len(merged[i].governanceReasons) >= Len(ret.value[i].governanceReasons)
                    /\ SubSeq(merged[i].governanceReasons, 1, Len(ret.value[i].governanceReasons))
                        = ret.value[i].governanceReasons

\* one decision passes with the single reason, another of the same list is
\* held back for its low total, and the reviewer map with two entries adds
\* reasons to the 30d decision
C22_Witness ==
    /\ Called("buildDecisions")
    /\ \E i, j \in 1..Len(ret.value) :
        /\ ret.value[i].governanceReasons
            = << << "passes deterministic scoring and conflict checks" >> >>
        /\ ret.value[i].status = "accepted"
        /\ ret.value[j].governanceReasons
            = << << "low-confidence score requires reviewer approval" >> >>
    /\ \E reviewerMap \in RunMaps, k \in 1..Len(ret.value) :
        /\ Len(reviewerMap) = 2
        /\ Len(mergeReviewerDecisions(ret.value, reviewerMap)[k].governanceReasons)
            = Len(ret.value[k].governanceReasons) + 2

-----------------------------------------------------------------------------
(* Calls of parseSources(input) on texts of up to MaxParseLines lines,      *)
(* separated by line feeds or by carriage return and line feed.  Each line  *)
(* is listed with the type and the validity its source is to have; type    *)
(* "blank" marks a line that is to give no source.                          *)

MaxParseLines == 3

ParseLines ==
    << 
       \* ''
       [text |-> << >>,
        type |-> "blank", valid |-> TRUE],
       \* two spaces and a tab
       [text |-> << 32, 32, 9 >>,
        type |-> "blank", valid |-> TRUE],
       \* ' https://a.b/x '
       [text |-> << 32, 104, 116, 116, 112, 115, 58, 47, 47, 97, 46, 98, 47, 120, 32 >>,
        type |-> "url", valid |-> TRUE],
       \* 'https://a b': a space in the host
       [text |-> << 104, 116, 116, 112, 115, 58, 47, 47, 97, 32, 98 >>,
        type |-> "url", valid |-> FALSE],
       \* 'http://': no host
       [text |-> << 104, 116, 116, 112, 58, 47, 47 >>,
        type |-> "url", valid |-> FALSE],
       \* 'https://transcript.doc'
       [text |-> << 104, 116, 116, 112, 115, 58, 47, 47, 116, 114, 97, 110, 115, 99, 114, 105, 112, 116, 46, 100, 111, 99 >>,
        type |-> "url", valid |-> TRUE],
       \* 'Transcript of the doc'
       [text |-> << 84, 114, 97, 110, 115, 99, 114, 105, 112, 116, 32, 111, 102, 32, 116, 104, 101, 32, 100, 111, 99 >>,
        type |-> "transcript", valid |-> TRUE],
       \* 23 words 'a'
       [text |-> << 97, 32, 97, 32, 97, 32, 97, 32, 97, 32, 97, 32, 97, 32, 97, 32, 97, 32, 97, 32, 97, 32, 97, 32, 97, 32, 97, 32, 97, 32, 97, 32, 97, 32, 97, 32, 97, 32, 97, 32, 97, 32, 97, 32, 97 >>,
        type |-> "transcript", valid |-> TRUE],
       \* 'Q4 memo'
       [text |-> << 81, 52, 32, 109, 101, 109, 111 >>,
        type |-> "document", valid |-> TRUE],
       \* 'HTTPS://a b': the pattern is lower case
       [text |-> << 72, 84, 84, 80, 83, 58, 47, 47, 97, 32, 98 >>,
        type |-> "note", valid |-> TRUE] >>

\* a line feed, and a carriage return with a line feed
ParseBreaks == { << 10 >>, << 13, 10 >> }

RECURSIVE JoinParseLines(_, _)
JoinParseLines(picks, break) ==
    IF picks = << >> THEN << >>
    ELSE IF Len(picks) = 1 THEN ParseLines[picks[1]].text
    ELSE ParseLines[picks[1]].text \o break \o JoinParseLines(Tail(picks), break)

InitParse ==
    /\ AppConstructed
    /\ fn = "parseSources"
    /\ \E n \in 1..MaxParseLines : \E picks \in [1..n -> 1..Len(ParseLines)], break \in ParseBreaks :
        args = [input |-> JoinParseLines(picks, break), lines |-> picks]
    /\ ret = NoResult

CallParseSources ==
    /\ fn = "parseSources"
    /\ ret = NoResult
    /\ ret' = ResultOf(parseSources(args.input))
    /\ UNCHANGED << fn, args, appVars >>

NextParse == CallParseSources

SpecParse == InitParse /\ [][NextParse]_vars

\* "s-" and the decimal digits of n, for n below 10
SourceIdOf(n) == << 115, 45, 48 + n >>

\* C23: parseSources returns one source per non-blank line, in the order of
\* the lines, the i-th with the id s-i whatever blank lines come before it;
\* its type is the first that matches of url, transcript, document, note;
\* valid is false only for a url that fails URL parsing, and true for every
\* note, transcript and document.
C23_OneSourcePerLine ==
    Called("parseSources")
    => LET out == ret.value
           kept == SelectSeq(args.lines, LAMBDA pick : ParseLines[pick].type # "blank")
       IN  /\ Len(out) = Len(kept)
           /\ \A i \in 1..Len(out) :
                /\ out[i].id = SourceIdOf(i)
                /\ out[i].raw = Trim(ParseLines[kept[i]].text)
                /\ out[i].type = ParseLines[kept[i]].type
                /\ out[i].valid = ParseLines[kept[i]].valid
                /\ ~out[i].valid => out[i].type = "url"
                /\ out[i].type \in {"note", "transcript", "document"} => out[i].valid

\* three lines separated by carriage return and line feed, the first blank:
\* the sources are s-1, a url that fails URL parsing, and s-2, a transcript
C23_Witness ==
    /\ Called("parseSources")
    /\ Len(args.lines) = 3
    /\ \E i \in 1..Len(args.input) : args.input[i] = 13
    /\ ParseLines[args.lines[1]].type = "blank"
    /\ Len(ret.value) = 2
    /\ ret.value[1].id = SourceIdOf(1)
    /\ ret.value[1].type = "url"
    /\ ~ret.value[1].valid
    /\ ret.value[2].id = SourceIdOf(2)
    /\ ret.value[2].type = "transcript"

-----------------------------------------------------------------------------
(* Calls of buildRoadmap(decisions) on lists of up to MaxRoadmapDecisions   *)
(* decisions, in any order and with repeated horizons.                      *)

MaxRoadmapDecisions == 3

\* the three decisions of an empty claim list, and a 7d decision with
\* another title
RoadmapDecisions ==
    LET built == buildDecisions(<< >>)
    IN  << built[1], built[2], built[3],
           [ (CHOOSE d \in { built[i] : i \in 1..3 } : d.horizon = "7d")
                EXCEPT !.title = "Escalate the top risk" ] >>

InitRoadmap ==
    /\ AppConstructed
    /\ fn = "buildRoadmap"
    /\ \E n \in 0..MaxRoadmapDecisions : \E picks \in [1..n -> 1..Len(RoadmapDecisions)] :
        args = [decisions |-> [i \in 1..n |-> RoadmapDecisions[picks[i]]]]
    /\ ret = NoResult

CallBuildRoadmap ==
    /\ fn = "buildRoadmap"
    /\ ret = NoResult
    /\ ret' = ResultOf(buildRoadmap(args.decisions))
    /\ UNCHANGED << fn, args, appVars >>

NextRoadmap == CallBuildRoadmap

SpecRoadmap == InitRoadmap /\ [][NextRoadmap]_vars

\* C24: buildRoadmap returns three items, for 24h, 7d and 30d in this order,
\* whatever the decisions and their order; the item of a horizon that has a
\* decision has the title of the horizon's decision (of the last one when
\* there are several) as its action, with the owner and the success metric
\* of the horizon; the item of a horizon without a decision is the fallback
\* of the horizon.
C24_RoadmapThreeItems ==
    Called("buildRoadmap")
    => /\ Len(ret.value) = 3
       /\ ret.value[1].horizon = "24h"
       /\ ret.value[2].horizon = "7d"
       /\ ret.value[3].horizon = "30d"
       /\ \A k \in 1..3 :
            LET horizon == << "24h", "7d", "30d" >>[k]
                at == { i \in 1..Len(args.decisions) : args.decisions[i].horizon = horizon }
                last == CHOOSE i \in at : \A j \in at : j =< i
            IN  IF at = {}
                THEN ret.value[k] =
                        << [horizon |-> "24h",
                            action |-> "Define decision owner + first measurable move",
                            owner |-> "Operator",
                            successMetric |-> "Owner + KPI documented"],
                           [horizon |-> "7d",
                            action |-> "Run execution sprint and mitigate top risk",
                            owner |-> "Cross-functional",
                            successMetric |-> "Risk register reduced by 30%"],
                           [horizon |-> "30d",
                            action |-> "Institutionalize learnings into repeatable workflow",
                            owner |-> "Leadership",
                            successMetric |-> "Strategy cycle time drops week-over-week"] >>[k]
                ELSE /\ ret.value[k].action = args.decisions[last].title
                     /\ ret.value[k].owner
                            = << "Operator + Coder", "Ops Lead", "Strategy Lead" >>[k]
                     /\ ret.value[k].successMetric
                            = << "First experiment launched with baseline metric",
                                 "Mitigation and opportunity progress reviewed with evidence",
                                 "Validated playbook + next-quarter plan approved" >>[k]

\* the decisions were given as 30d, then 7d, and none for 24h: the roadmap
\* has the fallback for 24h and the decisions' titles for 7d and 30d
C24_Witness ==
    /\ Called("buildRoadmap")
    /\ Len(args.decisions) = 2
    /\ args.decisions[1].horizon = "30d"
    /\ args.decisions[2].horizon = "7d"
    /\ ret.value[1].action = "Define decision owner + first measurable move"
    /\ ret.value[2].action = args.decisions[2].title
    /\ ret.value[3].action = args.decisions[1].title

-----------------------------------------------------------------------------
(* The reviewer trail of the App (SpecReview) *)

\* the trail has one item per entry of the map, each entry of the map among
\* them, in ascending order of updatedAt
IsTrailOf(list, reviewerMap) ==
    /\ Len(list) = Len(reviewerMap)
    /\ \A i \in 1..Len(reviewerMap) : \E k \in 1..Len(list) : list[k] = reviewerMap[i].value
    /\ \A i, j \in 1..Len(list) : i < j => list[i].updatedAt =< list[j].updatedAt
    /\ \A i, j \in 1..Len(list) : list[i].decisionId = list[j].decisionId => i = j

\* C25: the trail of the App is reviewerTrail of its reviewers map: one item
\* per entry, ascending in updatedAt, at most one per decision id, and
\* non-empty when the map holds an entry; after a reviewer action that was
\* saved, the one item of the decision is the entry of that action.
C25_TrailOfLatestActions ==
    [][ LET before == reviewerTrail(reviewers)
            after == reviewerTrail(reviewers')
        IN  /\ trail = before
            /\ IsTrailOf(before, reviewers)
            /\ IsTrailOf(after, reviewers')
            /\ reviewers # EmptyObject => before # << >>
            \* updateReviewer has saved an entry
            /\ (clock' # clock /\ reviewers' # reviewers)
                => \E k \in 1..Len(after) :
                    /\ after[k].updatedAt = clock'
                    /\ \A i \in 1..Len(after) :
                        after[i].decisionId = after[k].decisionId => i = k
                    /\ \A i \in 1..Len(after) :
                        i # k => \E j \in 1..Len(before) : before[j] = after[i]
                    /\ Len(after) = Len(before)
                            + (IF ObjHas(reviewers, after[k].decisionId) THEN 0 ELSE 1)
      ]_vars

\* the decision whose entry is the first of the map was reviewed again, after
\* the two others: its item, with the new time, is the last of three
C25_Witness ==
    /\ Len(reviewers) = 3
    /\ Len(trail) = 3
    /\ reviewers[1].value.updatedAt = clock
    /\ clock > reviewers[2].value.updatedAt
    /\ trail[3] = reviewers[1].value
    /\ trail[1] = reviewers[2].value

-----------------------------------------------------------------------------
(* Calls of buildDecisions(claims) on claim lists given by the number of    *)
(* claims of each kind, up to MaxTypeCount of a kind: sources with an       *)
(* opportunity and a risk claim (conflict sources), then sources with one   *)
(* claim each.                                                              *)

MaxTypeCount == 6

\* count times the shape
Repeated(shape, count) == [i \in 1..count |-> [shape |-> shape, score |-> 60]]

CountedClaims(conflicting, opportunities, risks, assumptions, unknowns) ==
    ClaimsOfShapes(Repeated({"opportunity", "risk"}, conflicting)
                    \o Repeated({"opportunity"}, opportunities)
                    \o Repeated({"risk"}, risks)
                    \o Repeated({"assumption"}, assumptions)
                    \o Repeated({"unknown"}, unknowns), 1)

InitRank ==
    /\ AppConstructed
    /\ fn = "buildDecisions"
    /\ \E conflicting \in 0..1, opportunities \in 0..MaxTypeCount, risks \in 0..MaxTypeCount,
          uncertain \in 0..MaxTypeCount :
        args = [claims |-> CountedClaims(conflicting, opportunities, risks,
                                         uncertain \div 2, uncertain - (uncertain \div 2)),
                conflicting |-> conflicting]
    /\ ret = NoResult

CallBuildDecisionsCounted ==
    /\ fn = "buildDecisions"
    /\ ret = NoResult
    /\ ret' = ResultOf(buildDecisions(args.claims))
    /\ UNCHANGED << fn, args, appVars >>

NextRank == CallBuildDecisionsCounted

SpecRank == InitRank /\ [][NextRank]_vars

\* the number of claims of the types
ClaimsOfTypes(claimList, types) ==
    Cardinality({ i \in 1..Len(claimList) : claimList[i].type \in types })

\* C26: the 24h decision has impact min(10, 5 + opportunity claims), effort
\* 4 and urgency 8; the 7d decision min(10, 4 + risk claims), 5 and 7; the
\* 30d decision min(10, 4 + assumption and unknown claims), 6 and 6; the
\* contradictionPenalty of each is 8 times the number of conflict sources;
\* and score is impact * 1.8 + urgency * 1.2 - effort + total / 50
\* - contradictionPenalty / 10 (here times 50).
C26_DecisionScoring ==
    Called("buildDecisions")
    => \A i \in 1..Len(ret.value) :
        LET d == ret.value[i]
            count == CASE d.horizon = "24h" -> 5 + ClaimsOfTypes(args.claims, {"opportunity"})
                       [] d.horizon = "7d" -> 4 + ClaimsOfTypes(args.claims, {"risk"})
                       [] d.horizon = "30d" ->
                            4 + ClaimsOfTypes(args.claims, {"assumption", "unknown"})
        IN  /\ d.impact = (IF count > 10 THEN 10 ELSE count)
            /\ << d.effort, d.urgency >>
                = (CASE d.horizon = "24h" -> << 4, 8 >>
                     [] d.horizon = "7d" -> << 5, 7 >>
                     [] d.horizon = "30d" -> << 6, 6 >>)
            /\ d.scoreBreakdown.contradictionPenalty
                = 8 * Cardinality(ConflictingSources(args.claims))
            /\ d.score = 90 * d.impact + 60 * d.urgency - 50 * d.effort
                            + d.scoreBreakdown.total - 5 * d.scoreBreakdown.contradictionPenalty

\* with a conflict source and six more opportunity claims the 24h impact is
\* capped at 10, and the penalty is 8
C26_Witness ==
    /\ Called("buildDecisions")
    /\ ClaimsOfTypes(args.claims, {"opportunity"}) = 7
    /\ \E i \in 1..Len(ret.value) :
        /\ ret.value[i].horizon = "24h"
        /\ ret.value[i].impact = 10
        /\ ret.value[i].scoreBreakdown.contradictionPenalty = 8

-----------------------------------------------------------------------------
(* The App with an intake that gives no claim (SpecReview) *)

\* C27: while the intake gives no claim and the reviewers map is empty, the
\* three decisions are needs-review with totals below 46, hasPendingReview
\* is true, and exportMarkdown and exportJson save nothing and report that
\* the export is blocked on pending review.
C27_EmptyIntakeBlocked ==
    [][ (claims = << >> /\ reviewers = EmptyObject)
        => /\ Len(decisions) = 3
           /\ \A i \in 1..Len(decisions) :
                /\ decisions[i].status = "needs-review"
                /\ decisions[i].scoreBreakdown.total < 46
           /\ hasPendingReview(decisions)
           /\ pendingReview
           /\ (exportMarkdown \/ exportJson)
                => /\ downloads' = downloads
                   /\ notice' = << "Final export is blocked: one or more decisions still need review." >>
      ]_vars

\* an export was tried on the blank intake before any reviewer action, and
\* was refused for pending review
C27_Witness ==
    /\ intakeText = << >>
    /\ claims = << >>
    /\ reviewers = EmptyObject
    /\ sessionItems = EmptyObject
    /\ downloads = {}
    /\ notice = << "Final export is blocked: one or more decisions still need review." >>

-----------------------------------------------------------------------------
(* The scope a save writes (SpecStore) *)

\* C28: after a save that succeeded, the scope loads as the map the call
\* returned; that map has the entry under its decision id and, for every
\* other id, what current has; an entry the store held for the scope under
\* an id that is neither in current nor the entry's is no longer loaded.
C28_SaveOverwritesScope ==
    (fn = "saveReviewerDecision" /\ ~ret.value.threw)
    => LET returned == ret.value.value
           loaded == loadReviewerDecisions(args.scopeKey, Storage(sessionItems, FALSE))
           before == loadReviewerDecisions(args.scopeKey, Storage(args.storage.items, FALSE))
       IN  /\ loaded = returned
           /\ ObjHas(returned, args.entry.decisionId)
           /\ ObjGet(returned, args.entry.decisionId) = args.entry
           /\ \A i \in 1..Len(returned) :
                returned[i].key # args.entry.decisionId
                => /\ ObjHas(args.current, returned[i].key)
                   /\ ObjGet(args.current, returned[i].key) = returned[i].value
           /\ \A i \in 1..Len(args.current) : ObjHas(returned, args.current[i].key)
           /\ \A i \in 1..Len(before) :
                (/\ ~ObjHas(args.current, before[i].key)
                 /\ before[i].key # args.entry.decisionId)
                => ~ObjHas(loaded, before[i].key)

\* the store held an entry for the scope, the caller's map was empty and
\* the entry is of another decision: the scope now loads the new entry only
C28_Witness ==
    /\ fn = "saveReviewerDecision"
    /\ ~ret.value.threw
    /\ args.current = EmptyObject
    /\ Len(loadReviewerDecisions(args.scopeKey, Storage(args.storage.items, FALSE))) = 1
    /\ ~ObjHas(loadReviewerDecisions(args.scopeKey, Storage(args.storage.items, FALSE)),
               args.entry.decisionId)
    /\ loadReviewerDecisions(args.scopeKey, Storage(sessionItems, FALSE))
        = << [key |-> args.entry.decisionId, value |-> args.entry] >>

-----------------------------------------------------------------------------
(* Reviewer entries on the decisions buildDecisions returns (SpecEngine) *)

\* the reviewer map that gives the status to the decisions at the positions
ReviewAt(list, positions, status) ==
    LET chosen == SelectSeq([i \in 1..Len(list) |-> i], LAMBDA i : i \in positions)
    IN  [k \in 1..Len(chosen) |->
            [key |-> list[chosen[k]].id,
             value |-> [decisionId |-> list[chosen[k]].id, status |-> status,
                        notes |-> << >>, updatedAt |-> 0]]]

\* C29: buildDecisions gives no decision the status rejected; a reviewer
\* entry needs-review on a decision it accepted makes hasPendingReview true
\* of the merged decisions; and when the reviewer rejects every decision
\* that needs review, hasPendingReview is false of the merged decisions,
\* which then hold the rejected ones.
C29_OverrideBothWays ==
    Called("buildDecisions")
    => LET held == { i \in 1..Len(ret.value) : ret.value[i].status = "needs-review" }
           resolved == mergeReviewerDecisions(ret.value, ReviewAt(ret.value, held, "rejected"))
       IN  /\ \A i \in 1..Len(ret.value) : ret.value[i].status \in {"accepted", "needs-review"}
           /\ \A i \in 1..Len(ret.value) :
                ret.value[i].status = "accepted"
                => LET reopened == mergeReviewerDecisions(
                                        ret.value, ReviewAt(ret.value, {i}, "needs-review"))
                   IN  /\ reopened[i].status = "needs-review"
                       /\ hasPendingReview(reopened)
           /\ ~hasPendingReview(resolved)
           /\ \A i \in held : resolved[i].status = "rejected"
           /\ hasPendingReview(ret.value) <=> held # {}

\* buildDecisions has accepted two decisions and held one back: a
\* needs-review entry on an accepted one adds a pending decision, and the
\* rejection of the held one leaves none
C29_Witness ==
    /\ Called("buildDecisions")
    /\ Cardinality({ i \in 1..Len(ret.value) : ret.value[i].status = "accepted" }) = 2
    /\ hasPendingReview(ret.value)
    /\ \E i \in 1..Len(ret.value) :
        /\ ret.value[i].status = "needs-review"
        /\ ~hasPendingReview(mergeReviewerDecisions(ret.value,
                                                    ReviewAt(ret.value, {i}, "rejected")))
    /\ \E i \in 1..Len(ret.value) :
        /\ ret.value[i].status = "accepted"
        /\ Cardinality({ k \in 1..Len(ret.value) :
                mergeReviewerDecisions(ret.value, ReviewAt(ret.value, {i}, "needs-review"))[k].status
                    = "needs-review" }) = 2

\* buildDecisions has accepted all three decisions
C29_AllAccepted ==
    /\ Called("buildDecisions")
    /\ ~hasPendingReview(ret.value)

-----------------------------------------------------------------------------
(* Runs of parseSources, buildClaims and buildDecisions on intakes of up to *)
(* MaxUrlLines lines, urls among them.                                      *)

MaxUrlLines == 2

UrlLines ==
    <<
       \* 'https://a.b/churn'
       << 104, 116, 116, 112, 115, 58, 47, 47, 97, 46, 98, 47, 99, 104, 117, 114, 110 >>,
       \* 'https://a.b/x'
       << 104, 116, 116, 112, 115, 58, 47, 47, 97, 46, 98, 47, 120 >>,
       \* 'https://a.b/growth-risk'
       << 104, 116, 116, 112, 115, 58, 47, 47, 97, 46, 98, 47, 103, 114, 111, 119, 116, 104, 45, 114, 105, 115, 107 >>,
       \* 'churn risk'
       << 99, 104, 117, 114, 110, 32, 114, 105, 115, 107 >>,
       \* 'growth'
       << 103, 114, 111, 119, 116, 104 >>,
       \* 'report data confirmed published today'
       << 114, 101, 112, 111, 114, 116, 32, 100, 97, 116, 97, 32, 99, 111, 110, 102, 105, 114, 109, 101, 100, 32, 112, 117, 98, 108, 105, 115, 104, 101, 100, 32, 116, 111, 100, 97, 121 >>,
       \* 'HTTPS://a.b/churn'
       << 72, 84, 84, 80, 83, 58, 47, 47, 97, 46, 98, 47, 99, 104, 117, 114, 110 >>,
       \* 'https://a.b/Delay data confirmed published today'
       << 104, 116, 116, 112, 115, 58, 47, 47, 97, 46, 98, 47, 68, 101, 108, 97, 121, 32, 100, 97, 116, 97, 32, 99, 111, 110, 102, 105, 114, 109, 101, 100, 32, 112, 117, 98, 108, 105, 115, 104, 101, 100, 32, 116, 111, 100, 97, 121 >> >>

RECURSIVE JoinUrlLines(_)
JoinUrlLines(picks) ==
    IF picks = << >> THEN << >>
    ELSE IF Len(picks) = 1 THEN UrlLines[picks[1]]
    ELSE UrlLines[picks[1]] \o << 10 >> \o JoinUrlLines(Tail(picks))

InitIntake ==
    /\ AppConstructed
    /\ fn = "intake"
    /\ \E n \in 0..MaxUrlLines : \E picks \in [1..n -> 1..Len(UrlLines)] :
        args = [intakeText |-> JoinUrlLines(picks)]
    /\ ret = NoResult

\* the intake goes through the stages up to the ranked decisions
RunIntake ==
    /\ fn = "intake"
    /\ ret = NoResult
    /\ ret' = ResultOf(Pipeline(args.intakeText, EmptyObject))
    /\ UNCHANGED << fn, args, appVars >>

NextIntake == RunIntake

SpecIntake == InitIntake /\ [][NextIntake]_vars

\* a risk keyword occurs in the lowercased text
HasRiskKeyword(raw) ==
    \E k \in 1..Len(SIGNALS.risk) : Includes(ToLowerCase(raw), SIGNALS.risk[k])

\* C30: every url source has an opportunity claim; a url source whose text
\* has a risk keyword, with or without an opportunity keyword, is in the
\* conflictSourceIds of every decision, and then all three decisions are
\* needs-review.
C30_UrlRiskConflicts ==
    Called("intake")
    => \A i \in 1..Len(ret.value.sources) :
        LET source == ret.value.sources[i]
            ranked == ret.value.baseDecisions
        IN  source.type = "url"
            => /\ \E k \in 1..Len(ret.value.claims) :
                    /\ ret.value.claims[k].sourceId = source.id
                    /\ ret.value.claims[k].type = "opportunity"
               /\ HasRiskKeyword(source.raw)
                    => /\ Len(ranked) = 3
                       /\ \A d \in 1..Len(ranked) :
                            /\ \E c \in 1..Len(ranked[d].conflictSourceIds) :
                                    ranked[d].conflictSourceIds[c] = source.id
                            /\ ranked[d].status = "needs-review"

\* a url with the risk keyword delay and no opportunity keyword is the only
\* conflict source, and holds back a decision whose total is 46 or more
C30_Witness ==
    /\ Called("intake")
    /\ \E i \in 1..Len(ret.value.sources) :
        /\ ret.value.sources[i].type = "url"
        /\ HasRiskKeyword(ret.value.sources[i].raw)
        /\ \A k \in 1..Len(SIGNALS.opportunity) :
                ~Includes(ToLowerCase(ret.value.sources[i].raw), SIGNALS.opportunity[k])
        /\ \E d \in 1..Len(ret.value.baseDecisions) :
            /\ ret.value.baseDecisions[d].conflictSourceIds = << ret.value.sources[i].id >>
            /\ ret.value.baseDecisions[d].scoreBreakdown.total >= 46
            /\ ret.value.baseDecisions[d].status = "needs-review"

=============================================================================
